---------------------------- MODULE Spec2Model ----------------------------
(***************************************************************************)
(* A model of the NL2SQL backend: the SQL safety validator, the two        *)
(* generation backends, the SQL extractors and the generation              *)
(* orchestrator (services/sql_generator.py, services/groq_llm_client.py,   *)
(* services/openai_client.py, services/db_connector.py), and the schema    *)
(* retrieval engine over its vector collection (services/rag_engine.py).   *)
(*                                                                         *)
(* Text is modelled as a sequence of one-character strings, so that        *)
(* trimming, case conversion, prefix tests, substring search and splitting *)
(* are computed character by character as the Python code computes them.   *)
(***************************************************************************)
EXTENDS Integers, Sequences, FiniteSets, TLC

VARIABLES
    use_mock,   \* SQLGenerator.use_mock
    openai,     \* SQLGenerator.openai: which model collaborator was injected
    db,         \* SQLGenerator.db: the database collaborator and the database behind it
    op,         \* the operation that completed last ("none" after construction)
    arg,        \* the arguments of that operation
    result,     \* the value that operation returned
    initialized,    \* RAGEngine.is_initialized
    collection,     \* the documents of the vector collection schema_embeddings, in insertion order
    store_calls,    \* the calls the last operation made on the vector collection, in order
    threads,        \* the calls in progress on concurrent threads: position and locals of each
    globals,        \* the module-level singleton variables and the objects constructed so far
    cache,          \* SchemaCache._cache
    timestamps,     \* SchemaCache._timestamps
    clock,          \* time.time(), in seconds
    last_set        \* what the callers of the cache did: per key, the latest set no clear has followed

vars == <<use_mock, openai, db, op, arg, result, initialized, collection, store_calls,
          threads, globals, cache, timestamps, clock, last_set>>

\* the state outside the generator, its database and the retrieval engine
rest_of_process == <<threads, globals, cache, timestamps, clock, last_set>>

\* the state of the retrieval engine and its vector collection
engine == <<initialized, collection, store_calls>>

---------------------------------------------------------------------------
(* Bounds of the model *)

MaxSqlTokens == 3
MaxQuestionTokens == 3
MaxTextTokens == 3

---------------------------------------------------------------------------
(* Python str primitives over character sequences *)

LowerChars == <<"a", "b", "c", "d", "e", "f", "g", "h", "i", "j", "k", "l", "m", "n", "o", "p", "q", "r", "s", "t", "u", "v", "w", "x", "y", "z">>

UpperChars == <<"A", "B", "C", "D", "E", "F", "G", "H", "I", "J", "K", "L", "M", "N", "O", "P", "Q", "R", "S", "T", "U", "V", "W", "X", "Y", "Z">>

ToUpper == [c \in {LowerChars[i] : i \in 1..26} |-> UpperChars[CHOOSE i \in 1..26 : LowerChars[i] = c]]

ToLower == [c \in {UpperChars[i] : i \in 1..26} |-> LowerChars[CHOOSE i \in 1..26 : UpperChars[i] = c]]

\* str.upper()
Upper(s) == [i \in 1..Len(s) |-> IF s[i] \in DOMAIN ToUpper THEN ToUpper[s[i]] ELSE s[i]]

\* str.lower()
Lower(s) == [i \in 1..Len(s) |-> IF s[i] \in DOMAIN ToLower THEN ToLower[s[i]] ELSE s[i]]

\* the characters str.strip() removes, among those the inputs are made of
Whitespace == {" ", "\n", "\t", "\r"}

\* str.strip()
Strip(s) ==
    LET keep == {i \in 1..Len(s) : s[i] \notin Whitespace}
    IN  IF keep = {} THEN <<>>
        ELSE SubSeq(s, CHOOSE i \in keep : \A j \in keep : i <= j,
                       CHOOSE i \in keep : \A j \in keep : i >= j)

\* str.startswith(prefix)
StartsWith(s, prefix) ==
    /\ Len(prefix) <= Len(s)
    /\ SubSeq(s, 1, Len(prefix)) = prefix

\* str.endswith(suffix)
EndsWith(s, suffix) ==
    /\ Len(suffix) <= Len(s)
    /\ SubSeq(s, Len(s) - Len(suffix) + 1, Len(s)) = suffix

\* sub occurs in s at position i
OccursAt(s, sub, i) == \A j \in 1..Len(sub) : s[i + j - 1] = sub[j]

\* sub in s
Contains(s, sub) == \E i \in 1..(Len(s) - Len(sub) + 1) : OccursAt(s, sub, i)

\* str.find(sub) + 1: the position of the first occurrence of sub, 0 if none
Find(s, sub) ==
    IF ~Contains(s, sub) THEN 0
    ELSE CHOOSE i \in 1..(Len(s) - Len(sub) + 1) :
            /\ OccursAt(s, sub, i)
            /\ \A j \in 1..(i - 1) : ~OccursAt(s, sub, j)

\* s.split(sep)[0]
SplitHead(s, sep) == IF Find(s, sep) = 0 THEN s ELSE SubSeq(s, 1, Find(s, sep) - 1)

\* what follows the first occurrence of sep in s (sep occurs in s)
SplitRest(s, sep) == SubSeq(s, Find(s, sep) + Len(sep), Len(s))

\* s.split(sep)[1] (sep occurs in s)
SplitSecond(s, sep) == SplitHead(SplitRest(s, sep), sep)

\* s[:-1]
DropLast(s) == SubSeq(s, 1, Len(s) - 1)

\* the text of a character sequence, as f-strings and str() render it
RECURSIVE Str(_)
Str(s) == IF s = <<>> THEN "" ELSE s[1] \o Str(Tail(s))

\* every concatenation of at most n tokens
RECURSIVE Concats(_, _)
Concats(tokens, n) ==
    IF n = 0 THEN {<<>>}
    ELSE LET shorter == Concats(tokens, n - 1)
         IN  shorter \cup {t \o s : t \in tokens, s \in shorter}

\* membership test of a sequence
InSeq(x, seq) == \E i \in 1..Len(seq) : seq[i] = x

---------------------------------------------------------------------------
(* services/sql_generator.py: class constants *)

FORBIDDEN_KEYWORDS == <<
    <<"D", "R", "O", "P">>,
    <<"D", "E", "L", "E", "T", "E">>,
    <<"T", "R", "U", "N", "C", "A", "T", "E">>,
    <<"A", "L", "T", "E", "R">>,
    <<"U", "P", "D", "A", "T", "E">>,
    <<"I", "N", "S", "E", "R", "T">>,
    <<"G", "R", "A", "N", "T">>,
    <<"R", "E", "V", "O", "K", "E">>,
    <<"C", "R", "E", "A", "T", "E">> >>

SYSTEM_TABLE_PATTERNS == <<
    <<"i", "n", "f", "o", "r", "m", "a", "t", "i", "o", "n", "_", "s", "c", "h", "e", "m", "a">>,
    <<"p", "g", "_", "c", "a", "t", "a", "l", "o", "g">>,
    <<"p", "g", "_", "t", "o", "a", "s", "t">> >>

SELECT == <<"S", "E", "L", "E", "C", "T">>

---------------------------------------------------------------------------
(* The database collaborator *)

\* The outcome of self.db.get_tables(): DatabaseConnector defines
\* get_all_tables but no get_tables, so the call raises AttributeError; a
\* collaborator that implements get_tables returns its table list, or raises
\* when its database is unreachable.
DbGetTables(d) ==
    IF d.kind = "DatabaseConnector" THEN [raised |-> TRUE, tables |-> <<>>]
    ELSE IF d.up THEN [raised |-> FALSE, tables |-> d.tables]
    ELSE [raised |-> TRUE, tables |-> <<>>]

---------------------------------------------------------------------------
(* SQLGenerator.validate_sql *)

\* rule 1: only SELECT allowed
SelectIssues(upper_sql) ==
    IF ~StartsWith(upper_sql, SELECT)
    THEN <<[issue |-> "Only SELECT queries are allowed", risk |-> 50]>>
    ELSE <<>>

\* a variant that matches a keyword only as a whole word
KeywordIssuesWholeWord(upper_sql, k) ==
    LET IsWord(kw) == Contains(<<" ">> \o upper_sql \o <<" ">>, <<" ">> \o kw \o <<" ">>)
        found == SelectSeq(SubSeq(FORBIDDEN_KEYWORDS, k, Len(FORBIDDEN_KEYWORDS)), IsWord)
    IN  [i \in 1..Len(found) |->
            [issue |-> "Forbidden keyword detected: " \o Str(found[i]), risk |-> 40]]

\* rule 2: one issue per forbidden keyword found, in list order
RECURSIVE KeywordIssues(_, _)
KeywordIssues(upper_sql, k) ==
    IF k > Len(FORBIDDEN_KEYWORDS) THEN <<>>
    ELSE (IF Contains(upper_sql, FORBIDDEN_KEYWORDS[k])
          THEN <<[issue |-> "Forbidden keyword detected: " \o Str(FORBIDDEN_KEYWORDS[k]),
                  risk |-> 40]>>
          ELSE <<>>) \o KeywordIssues(upper_sql, k + 1)

\* a variant that looks for ';' in the whole trimmed query
MultiStatementIssuesWhole(sql_query) ==
    IF Contains(Strip(sql_query), <<";">>)
    THEN <<[issue |-> "Multiple SQL statements detected", risk |-> 30]>>
    ELSE <<>>

\* rule 3: a ';' anywhere before the last character of the trimmed query
MultiStatementIssues(sql_query) ==
    IF Contains(DropLast(Strip(sql_query)), <<";">>)
    THEN <<[issue |-> "Multiple SQL statements detected", risk |-> 30]>>
    ELSE <<>>

\* re.search(pattern, sql_query, re.IGNORECASE) for a literal pattern
SearchIgnoreCase(pattern, text) == Contains(Lower(text), Lower(pattern))

\* a variant that stops at the first system-schema pattern found
SystemTableIssuesOnce(sql_query, k) ==
    IF \E j \in k..Len(SYSTEM_TABLE_PATTERNS) : Contains(Lower(sql_query), Lower(SYSTEM_TABLE_PATTERNS[j]))
    THEN <<[issue |-> "System table access detected", risk |-> 40]>>
    ELSE <<>>

\* rule 4: one issue per system-schema pattern found, in list order
RECURSIVE SystemTableIssues(_, _)
SystemTableIssues(sql_query, k) ==
    IF k > Len(SYSTEM_TABLE_PATTERNS) THEN <<>>
    ELSE (IF SearchIgnoreCase(SYSTEM_TABLE_PATTERNS[k], sql_query)
          THEN <<[issue |-> "System table access detected", risk |-> 40]>>
          ELSE <<>>) \o SystemTableIssues(sql_query, k + 1)

\* rule 5: the table-existence check, which only ever adds a warning
TableWarnings(sql_query, got) ==
    IF got.raised THEN <<"Table validation skipped">>
    ELSE IF ~(\E i \in 1..Len(got.tables) : Contains(Lower(sql_query), Lower(got.tables[i])))
         THEN <<"No known table detected in query">>
         ELSE <<>>

RECURSIVE SumRisk(_)
SumRisk(fired) == IF fired = <<>> THEN 0 ELSE fired[1].risk + SumRisk(Tail(fired))

\* a variant in which a warning also makes the query unsafe
ValidateSqlWarningsBlock(sql_query, got) ==
    LET upper_sql == Upper(Strip(sql_query))
        fired == SelectIssues(upper_sql) \o KeywordIssues(upper_sql, 1)
                 \o MultiStatementIssues(sql_query) \o SystemTableIssues(sql_query, 1)
        issues == [i \in 1..Len(fired) |-> fired[i].issue]
    IN  [is_safe    |-> Len(issues) = 0 /\ TableWarnings(sql_query, got) = <<>>,
         is_valid   |-> TRUE,
         issues     |-> issues,
         warnings   |-> TableWarnings(sql_query, got),
         risk_score |-> SumRisk(fired)]

\* validate_sql(sql_query) where self.db.get_tables() has the outcome got
ValidateSql(sql_query, got) ==
    LET upper_sql == Upper(Strip(sql_query))
        fired == SelectIssues(upper_sql) \o KeywordIssues(upper_sql, 1)
                 \o MultiStatementIssues(sql_query) \o SystemTableIssues(sql_query, 1)
        issues == [i \in 1..Len(fired) |-> fired[i].issue]
    IN  [is_safe    |-> Len(issues) = 0,
         is_valid   |-> TRUE,
         issues     |-> issues,
         warnings   |-> TableWarnings(sql_query, got),
         risk_score |-> SumRisk(fired)]

---------------------------------------------------------------------------
(* DatabaseConnector: the schema lookup used for the prompt *)

\* the columns the database reports for a table (inspector.get_columns), as
\* get_table_schema records them
DbColumns(table) ==
    CASE table = <<"c", "u", "s", "t", "o", "m", "e", "r", "s">> ->
            <<[name |-> <<"c", "u", "s", "t", "o", "m", "e", "r", "_", "i", "d">>, type |-> "INTEGER", nullable |-> FALSE],
              [name |-> <<"e", "m", "a", "i", "l">>, type |-> "TEXT", nullable |-> TRUE]>>
      [] table = <<"o", "r", "d", "e", "r">> ->
            <<[name |-> <<"i", "t", "e", "m", "s", "_", "i", "d">>, type |-> "INTEGER", nullable |-> FALSE],
              [name |-> <<"s", "t", "a", "t", "u", "s">>, type |-> "TEXT", nullable |-> TRUE]>>
      [] table = <<"o", "r", "d", "e", "r", "_", "i", "t", "e", "m", "s">> ->
            <<[name |-> <<"i", "d">>, type |-> "INTEGER", nullable |-> FALSE],
              [name |-> <<"o", "r", "d", "e", "r", "_", "i", "d">>, type |-> "INTEGER", nullable |-> FALSE],
              [name |-> <<"s", "k", "u">>, type |-> "TEXT", nullable |-> TRUE],
              [name |-> <<"q", "u", "a", "n", "t", "i", "t", "y">>, type |-> "INTEGER", nullable |-> TRUE]>>
      [] table = <<"p", "r", "o", "d", "u", "c", "t", "s">> ->
            <<[name |-> <<"n", "a", "m", "e">>, type |-> "TEXT", nullable |-> TRUE],
              [name |-> <<"p", "r", "i", "c", "e">>, type |-> "REAL", nullable |-> TRUE]>>
      [] OTHER ->
            <<[name |-> <<"o", "r", "d", "e", "r", "_", "i", "d">>, type |-> "INTEGER", nullable |-> FALSE],
              [name |-> <<"s", "t", "a", "t", "u", "s">>, type |-> "TEXT", nullable |-> TRUE]>>

\* DatabaseConnector.get_all_tables: one connect attempt when not connected,
\* then the table names, or [] when the inspection raises
GetAllTables(d) == IF d.up THEN d.tables ELSE <<>>

\* the connector after a call that checks is_connected and calls connect()
AfterEnsureConnected(d) ==
    IF d.kind = "DatabaseConnector" /\ ~d.connected
    THEN [d EXCEPT !.connected = d.up]
    ELSE d

\* a variant that tries connect() a second time when the first attempt fails
ConnectsOfRetrying(d) ==
    IF d.kind = "DatabaseConnector" /\ ~d.connected THEN (IF d.up THEN 1 ELSE 2) ELSE 0

\* the connect() calls of a lookup that checks is_connected first: one when
\* the connector is not connected, none otherwise
ConnectsOf(d) ==
    IF d.kind = "DatabaseConnector" /\ ~d.connected THEN 1 ELSE 0

\* the connect() calls of get_table_schema over the tables of
\* get_full_schema, each lookup finding the connector as the one before left it
RECURSIVE TableSchemaConnects(_, _)
TableSchemaConnects(d, tables) ==
    IF tables = <<>> THEN 0
    ELSE ConnectsOf(d) + TableSchemaConnects(AfterEnsureConnected(d), Tail(tables))

\* the connect() calls of DatabaseConnector.get_full_schema: those of
\* get_all_tables and of get_table_schema for each table it returned
GetFullSchemaConnects(d) ==
    ConnectsOf(d) + TableSchemaConnects(AfterEnsureConnected(d), GetAllTables(d))

RECURSIVE ColumnLines(_)
ColumnLines(cols) ==
    IF cols = <<>> THEN ""
    ELSE "\n  - " \o Str(cols[1].name) \o " (" \o cols[1].type \o ")" \o ColumnLines(Tail(cols))

RECURSIVE TableLines(_)
TableLines(tables) ==
    IF tables = <<>> THEN ""
    ELSE "\n\nTable: " \o Str(tables[1]) \o ColumnLines(DbColumns(tables[1]))
         \o TableLines(Tail(tables))

\* DatabaseConnector.get_schema_for_prompt
GetSchemaForPrompt(d) ==
    IF GetAllTables(d) = <<>> THEN "No tables found."
    ELSE "Database Schema:\n========================================"
         \o TableLines(GetAllTables(d))

\* The outcome of self.db.get_schema_for_prompt(): the connector never
\* raises; another collaborator raises when its database is unreachable.
DbGetSchemaForPrompt(d) ==
    IF d.kind = "DatabaseConnector" THEN [raised |-> FALSE, text |-> GetSchemaForPrompt(d)]
    ELSE IF d.up THEN [raised |-> FALSE, text |-> GetSchemaForPrompt(d)]
    ELSE [raised |-> TRUE, text |-> "database is unreachable"]

---------------------------------------------------------------------------
(* SQLGenerator._mock_generate_sql *)

MockPatterns == <<
    [keywords |-> << <<"c", "u", "s", "t", "o", "m", "e", "r">>, <<"h", "o", "w", " ", "m", "a", "n", "y">> >>,
     sql |-> <<"S", "E", "L", "E", "C", "T", " ", "C", "O", "U", "N", "T", "(", "*", ")", " ", "F", "R", "O", "M", " ", "c", "u", "s", "t", "o", "m", "e", "r", "s", ";">>],
    [keywords |-> << <<"c", "u", "s", "t", "o", "m", "e", "r">> >>,
     sql |-> <<"S", "E", "L", "E", "C", "T", " ", "*", " ", "F", "R", "O", "M", " ", "c", "u", "s", "t", "o", "m", "e", "r", "s", ";">>],
    [keywords |-> << <<"o", "r", "d", "e", "r">>, <<"h", "o", "w", " ", "m", "a", "n", "y">> >>,
     sql |-> <<"S", "E", "L", "E", "C", "T", " ", "C", "O", "U", "N", "T", "(", "*", ")", " ", "F", "R", "O", "M", " ", "o", "r", "d", "e", "r", "s", ";">>],
    [keywords |-> << <<"a", "v", "e", "r", "a", "g", "e">> >>,
     sql |-> <<"S", "E", "L", "E", "C", "T", " ", "A", "V", "G", "(", "p", "r", "i", "c", "e", ")", " ", "F", "R", "O", "M", " ", "p", "r", "o", "d", "u", "c", "t", "s", ";">>],
    [keywords |-> << <<"a", "v", "g">> >>,
     sql |-> <<"S", "E", "L", "E", "C", "T", " ", "A", "V", "G", "(", "p", "r", "i", "c", "e", ")", " ", "F", "R", "O", "M", " ", "p", "r", "o", "d", "u", "c", "t", "s", ";">>],
    [keywords |-> << <<"p", "r", "o", "d", "u", "c", "t">> >>,
     sql |-> <<"S", "E", "L", "E", "C", "T", " ", "*", " ", "F", "R", "O", "M", " ", "p", "r", "o", "d", "u", "c", "t", "s", ";">>] >>

MockFallbackSql == <<"S", "E", "L", "E", "C", "T", " ", "1", ";">>

\* a variant with any() in place of all()
PatternMatchesAny(q, pattern) ==
    \E i \in 1..Len(pattern.keywords) : Contains(q, pattern.keywords[i])

\* all(word in q for word in keywords)
PatternMatches(q, pattern) ==
    \A i \in 1..Len(pattern.keywords) : Contains(q, pattern.keywords[i])

\* the loop over patterns from position k on: the first full match returns
RECURSIVE MockScan(_, _)
MockScan(q, k) ==
    IF k > Len(MockPatterns) THEN [success |-> TRUE, sql |-> MockFallbackSql]
    ELSE IF PatternMatches(q, MockPatterns[k]) THEN [success |-> TRUE, sql |-> MockPatterns[k].sql]
    ELSE MockScan(q, k + 1)

MockGenerateSql(question) == MockScan(Lower(question), 1)

---------------------------------------------------------------------------
(* SQL extraction from raw model text *)

\* the backtick character (U+0060), which a TLA+ string cannot contain
Backtick == "BACKTICK"

FenceSql == <<Backtick, Backtick, Backtick, "s", "q", "l">>

Fence == <<Backtick, Backtick, Backtick>>

Semicolon == <<";">>

\* groq_llm_client.extract_sql: the fence removal
ExtractFenced(text) ==
    IF Contains(text, FenceSql) THEN SplitHead(SplitSecond(text, FenceSql), Fence)
    ELSE IF Contains(text, Fence) THEN SplitHead(SplitSecond(text, Fence), Fence)
    ELSE text

\* groq_llm_client.extract_sql: the cut at the first ';'
CutAtSemicolon(text) ==
    IF Contains(text, Semicolon) THEN SplitHead(text, Semicolon) \o Semicolon ELSE text

\* groq_llm_client.extract_sql
ExtractSql(text) == Strip(CutAtSemicolon(Strip(ExtractFenced(text))))

\* OpenAIClient._extract_sql: the removal of a leading fence
StripLeadingFence(content) ==
    IF StartsWith(content, FenceSql) THEN SubSeq(content, 7, Len(content))
    ELSE IF StartsWith(content, Fence) THEN SubSeq(content, 4, Len(content))
    ELSE content

\* OpenAIClient._extract_sql: the removal of a trailing fence
StripTrailingFence(content) ==
    IF EndsWith(content, Fence) THEN SubSeq(content, 1, Len(content) - 3) ELSE content

\* OpenAIClient._extract_sql
OpenAIExtractSql(response) ==
    IF response = <<>> THEN <<>>
    ELSE Strip(StripTrailingFence(StripLeadingFence(Strip(response))))

---------------------------------------------------------------------------
(* The model collaborators and SQLGenerator._llm_generate_sql *)

\* groq_llm_client.generate_sql, where the completion request either raises
\* (reply.ok = FALSE, reply.error its message) or returns reply.content
GroqGenerateSql(reply) ==
    IF reply.ok
    THEN [success |-> TRUE, sql |-> ExtractSql(Strip(reply.content)), raw |-> Strip(reply.content)]
    ELSE [success |-> FALSE, error |-> reply.error, sql |-> "None"]

\* self.openai.generate_sql(question=..., schema_context=..., sample_data=...):
\* OpenAIClient.generate_sql names its first parameter user_question, so the
\* keyword call raises TypeError before any request is made
ClientGenerateSql(client, reply) ==
    IF client = "OpenAIClient"
    THEN [raised |-> TRUE,
          error |-> "OpenAIClient.generate_sql() got an unexpected keyword argument 'question'"]
    ELSE [raised |-> FALSE, value |-> GroqGenerateSql(reply)]

\* SQLGenerator._llm_generate_sql
LlmGenerateSql(client, reply) ==
    IF client = "None" THEN [success |-> FALSE, error |-> "LLM client not initialized"]
    ELSE IF ClientGenerateSql(client, reply).raised
         THEN [success |-> FALSE, error |-> ClientGenerateSql(client, reply).error]
         ELSE ClientGenerateSql(client, reply).value

---------------------------------------------------------------------------
(* SQLGenerator.generate_sql and SQLGenerator.generate_and_execute *)

\* the backend choice of generate_sql
AiResponse(mock, client, question, reply) ==
    IF mock THEN MockGenerateSql(question) ELSE LlmGenerateSql(client, reply)

\* a variant that drops the backend's message
ErrorOfUnknown(ai_response) == "Unknown LLM error"

\* ai_response.get("error", "Unknown LLM error")
ErrorOf(ai_response) ==
    IF "error" \in DOMAIN ai_response THEN ai_response.error ELSE "Unknown LLM error"

\* a variant that reports is_valid as the success of generate_sql
GenerationSuccessIsValid(validation) == validation.is_valid

\* the gate of generate_sql on the validation record
GenerationSuccess(validation) == validation.is_safe

\* SQLGenerator.generate_sql
GenerateSql(mock, client, d, question, reply) ==
    IF DbGetSchemaForPrompt(d).raised
    THEN [success |-> FALSE, error |-> "Schema error: " \o DbGetSchemaForPrompt(d).text]
    ELSE LET ai_response == AiResponse(mock, client, question, reply)
         IN  IF ~ai_response.success
             THEN [success |-> FALSE, error |-> ErrorOf(ai_response)]
             ELSE IF ai_response.sql = <<>>
                  THEN [success |-> FALSE, error |-> "No SQL generated"]
                  ELSE LET validation == ValidateSql(ai_response.sql, DbGetTables(d))
                       IN  [success    |-> GenerationSuccess(validation),
                            sql        |-> ai_response.sql,
                            validation |-> validation]

\* SQLGenerator._generate_explanation
GenerateExplanation(sql) ==
    "This query retrieves data from the database using a SELECT statement based on the user's request."

\* the stub execution of generate_and_execute
StubExecutionResult == [success |-> TRUE, row_count |-> 1, data |-> << <<"Example">> >>]

\* a variant that lets every result carrying SQL through the first gate
ExecutionGateHasSql(generation) == "sql" \in DOMAIN generation

\* the first gate of generate_and_execute
ExecutionGate(generation) == generation.success

\* a variant that attaches the explanation whatever auto_explain is
WithExecutionAlwaysExplained(generation, auto_explain, elapsed) ==
    [k \in DOMAIN generation \cup {"execution_result", "execution_time", "explanation"} |->
        IF k = "execution_result" THEN StubExecutionResult
        ELSE IF k = "execution_time" THEN elapsed
        ELSE IF k = "explanation" THEN GenerateExplanation(generation.sql)
        ELSE generation[k]]

\* the generation result with the execution fields attached
WithExecution(generation, auto_explain, elapsed) ==
    LET executed == [k \in DOMAIN generation \cup {"execution_result", "execution_time"} |->
                        IF k = "execution_result" THEN StubExecutionResult
                        ELSE IF k = "execution_time" THEN elapsed
                        ELSE generation[k]]
    IN  IF auto_explain
        THEN [k \in DOMAIN executed \cup {"explanation"} |->
                 IF k = "explanation" THEN GenerateExplanation(generation.sql) ELSE executed[k]]
        ELSE executed

\* a variant of generate_and_execute gated on is_valid alone
GenerateAndExecuteIsValidGate(mock, client, d, question, reply, auto_explain, elapsed) ==
    LET generation == GenerateSql(mock, client, d, question, reply)
    IN  IF "validation" \notin DOMAIN generation THEN generation
        ELSE IF ~generation.validation.is_valid
             THEN [success |-> FALSE, error |-> "Unsafe SQL detected",
                   validation |-> generation.validation]
             ELSE WithExecution(generation, auto_explain, elapsed)

\* SQLGenerator.generate_and_execute, where the stub execution took elapsed
\* ten-thousandths of a second
GenerateAndExecute(mock, client, d, question, reply, auto_explain, elapsed) ==
    LET generation == GenerateSql(mock, client, d, question, reply)
    IN  IF ~ExecutionGate(generation) THEN generation
        ELSE IF ~generation.validation.is_safe
             THEN [success |-> FALSE, error |-> "Unsafe SQL detected",
                   validation |-> generation.validation]
             ELSE WithExecution(generation, auto_explain, elapsed)

\* the database collaborator after generate_sql: the schema lookup of a
\* DatabaseConnector makes its connect attempt when it is not connected
DbAfterGenerateSql(d) == AfterEnsureConnected(d)

\* a variant that looks the schema up a second time
DbCallsSchemaTwice(mock, client, d, question, reply) ==
    <<"get_schema_for_prompt", "get_schema_for_prompt">>

\* the calls generate_sql issues on self.db, in order: the schema lookup and,
\* when the backend returned SQL, the get_tables() of validate_sql
DbCalls(mock, client, d, question, reply) ==
    IF DbGetSchemaForPrompt(d).raised THEN <<"get_schema_for_prompt">>
    ELSE LET ai_response == AiResponse(mock, client, question, reply)
         IN  IF ~ai_response.success THEN <<"get_schema_for_prompt">>
             ELSE IF ai_response.sql = <<>> THEN <<"get_schema_for_prompt">>
             ELSE <<"get_schema_for_prompt", "get_tables">>

---------------------------------------------------------------------------
(* Inputs *)

Customers == <<"c", "u", "s", "t", "o", "m", "e", "r", "s">>

Orders == <<"o", "r", "d", "e", "r", "s">>

\* the table lists a database may hold
DbTableLists == {<<>>, <<Customers, Orders>>}

\* The database collaborators a SQLGenerator may be constructed with: the
\* DatabaseConnector of get_db_connector(), connected or not, or another
\* object that implements get_schema_for_prompt and get_tables; and the
\* database behind it, reachable (up) or not.
DbStates ==
    {d \in [kind : {"DatabaseConnector", "TableLister"}, up : BOOLEAN,
            connected : BOOLEAN, tables : DbTableLists] :
        d.kind = "TableLister" => ~d.connected}

SqlTokens == {
    <<"S", "E", "L", "E", "C", "T", " ">>,
    <<"s", "e", "l", "e", "c", "t", " ">>,
    <<" ">>,
    <<";">>,
    <<"*", " ", "F", "R", "O", "M", " ", "c", "u", "s", "t", "o", "m", "e", "r", "s">>,
    <<"l", "a", "s", "t", "_", "u", "p", "d", "a", "t", "e", "d">>,
    <<"D", "R", "O", "P", " ">>,
    <<"i", "n", "f", "o", "r", "m", "a", "t", "i", "o", "n", "_", "s", "c", "h", "e", "m", "a">>,
    <<"P", "G", "_", "C", "a", "t", "a", "l", "o", "g">> }

\* Drop, DROP, drop: the letter cases a keyword is tried in
Capitalised(s) == IF s = <<>> THEN s ELSE <<s[1]>> \o Lower(Tail(s))

\* every forbidden keyword, in three letter cases, alone, as a word of a
\* SELECT and inside an identifier of a SELECT
KeywordSqls ==
    {pre \o kw \o post :
        pre \in {<<>>, <<"S", "E", "L", "E", "C", "T", " ">>, <<"S", "E", "L", "E", "C", "T", " ", "x", "_">>},
        kw \in UNION {{FORBIDDEN_KEYWORDS[k], Lower(FORBIDDEN_KEYWORDS[k]), Capitalised(FORBIDDEN_KEYWORDS[k])} :
                        k \in 1..Len(FORBIDDEN_KEYWORDS)},
        post \in {<<>>, <<"_", "y", ";">>}}

SqlInputs == Concats(SqlTokens, MaxSqlTokens) \cup KeywordSqls

---------------------------------------------------------------------------
(* The validator on its own: SQLGenerator(db, openai_client).validate_sql *)

InitValidate ==
    /\ use_mock = TRUE
    /\ openai = "OpenAIClient"
    /\ db \in {d \in DbStates : ~d.connected}
    /\ op = "none"
    /\ arg = <<>>
    /\ result = <<>>
    /\ initialized = FALSE
    /\ collection = <<>>
    /\ store_calls = <<>>
    /\ threads = <<>>
    /\ globals = <<>>
    /\ cache = <<>>
    /\ timestamps = <<>>
    /\ clock = 0
    /\ last_set = <<>>

\* a caller invokes validate_sql(sql) and the call returns
CallValidateSql ==
    /\ op = "none"
    /\ \E sql \in SqlInputs :
        /\ op' = "validate_sql"
        /\ arg' = [sql_query |-> sql]
        /\ result' = ValidateSql(sql, DbGetTables(db))
    /\ UNCHANGED <<rest_of_process, use_mock, openai, db, engine>>

\* the caller has consumed the returned value; the next call may be made
Respond ==
    /\ op # "none"
    /\ op' = "none"
    /\ arg' = <<>>
    /\ result' = <<>>
    /\ store_calls' = <<>>
    /\ UNCHANGED <<rest_of_process, use_mock, openai, db, initialized, collection>>

NextValidate == CallValidateSql \/ Respond

SpecValidate == InitValidate /\ [][NextValidate]_vars

---------------------------------------------------------------------------
(* The orchestrator: generate_sql and generate_and_execute *)

QuestionTokens == {
    <<"H", "o", "w", " ", "m", "a", "n", "y", " ">>,
    <<"C", "u", "s", "t", "o", "m", "e", "r">>,
    <<" ", "o", "r", "d", "e", "r", "s">>,
    <<"a", "v", "g", " ">>,
    <<"A", "v", "e", "r", "a", "g", "e">>,
    <<"P", "r", "o", "d", "u", "c", "t", "s">> }

Questions == Concats(QuestionTokens, MaxQuestionTokens)

\* on the model-backed path the question only enters the prompt
QuestionsFor(mock) == IF mock THEN Questions ELSE Concats(QuestionTokens, 1)

\* the texts the model may answer with
ReplyContents == {
    <<>>,
    <<"D", "R", "O", "P", " ", "T", "A", "B", "L", "E", " ", "c", "u", "s", "t", "o", "m", "e", "r", "s", ";">>,
    <<"S", "E", "L", "E", "C", "T", " ", "*", " ", "F", "R", "O", "M", " ", "c", "u", "s", "t", "o", "m", "e", "r", "s", ";">>,
    <<Backtick, Backtick, Backtick, "s", "q", "l", "\n", "S", "E", "L", "E", "C", "T", " ", "*", " ", "F", "R", "O", "M", " ", "t", ";", "\n", Backtick, Backtick, Backtick>>,
    <<" ", "s", "e", "l", "e", "c", "t", " ", "E", "m", "a", "i", "l", " ", "f", "r", "o", "m", " ", "C", "u", "s", "t", "o", "m", "e", "r", "s", " ", "w", "h", "e", "r", "e", " ", "l", "a", "s", "t", "_", "u", "p", "d", "a", "t", "e", "d", " ", ">", " ", "0", " ">>,
    <<"S", "e", "l", "e", "c", "t", " ", "e", "m", "a", "i", "l", " ", "F", "r", "o", "m", " ", "p", "g", "_", "c", "a", "t", "a", "l", "o", "g", ".", "p", "g", "_", "t", "a", "b", "l", "e", "s">>,
    <<"S", "E", "L", "E", "C", "T", " ", "1", ";", " ", "D", "R", "O", "P", " ", "T", "A", "B", "L", "E", " ", "c", "u", "s", "t", "o", "m", "e", "r", "s", ";">> }

\* the outcomes of one completion request: an answer, or an exception
LlmReplies ==
    {[ok |-> TRUE, content |-> c] : c \in ReplyContents}
    \cup {[ok |-> FALSE, error |-> "Connection error."]}

\* no completion request is made
NoReply == [ok |-> FALSE, error |-> "no request"]

\* generate_sql reaches the completion request only on the model-backed path
\* with a client whose generate_sql accepts the call
RequestMade(mock, client, d) ==
    /\ ~DbGetSchemaForPrompt(d).raised
    /\ ~mock
    /\ client = "groq_llm_client"

\* the completion requests generate_sql sends to the model API: one when the
\* model-backed path reaches a client that accepts the call
ModelRequests(mock, client, d) == IF RequestMade(mock, client, d) THEN 1 ELSE 0

\* the answer the model API has for a completion request of this call, should
\* one be made: the model-backed path with a client has a model API behind it
RepliesFor(mock, client, d) ==
    IF ~DbGetSchemaForPrompt(d).raised /\ ~mock /\ client # "None" THEN LlmReplies ELSE {NoReply}

\* round(time.time() - start_time, 4) around the stub, in ten-thousandths
ExecutionTimes == {0, 1}

\* the databases of the orchestrator runs
PipelineDbStates == {d \in DbStates : d.tables = <<Customers, Orders>>}

\* get_sql_generator() builds the generator with an OpenAIClient and the mock
\* backend selected unless the configuration defines USE_MOCK_LLM; with the
\* model-backed backend any model collaborator, or none, may be injected
Init ==
    /\ use_mock \in BOOLEAN
    /\ openai \in (IF use_mock THEN {"OpenAIClient"} ELSE {"None", "OpenAIClient", "groq_llm_client"})
    /\ db \in PipelineDbStates
    /\ op = "none"
    /\ arg = <<>>
    /\ result = <<>>
    /\ initialized = FALSE
    /\ collection = <<>>
    /\ store_calls = <<>>
    /\ threads = <<>>
    /\ globals = <<>>
    /\ cache = <<>>
    /\ timestamps = <<>>
    /\ clock = 0
    /\ last_set = <<>>

\* a caller invokes generate_sql(question) and the call returns
CallGenerateSql ==
    /\ op = "none"
    /\ \E question \in QuestionsFor(use_mock), reply \in RepliesFor(use_mock, openai, db) :
        /\ op' = "generate_sql"
        /\ arg' = [question |-> question, reply |-> reply, before |-> db]
        /\ result' = GenerateSql(use_mock, openai, db, question, reply)
    /\ db' = DbAfterGenerateSql(db)
    /\ UNCHANGED <<rest_of_process, use_mock, openai, engine>>

\* a caller invokes generate_and_execute(question, auto_explain) and the call returns
CallGenerateAndExecute ==
    /\ op = "none"
    /\ \E question \in QuestionsFor(use_mock), reply \in RepliesFor(use_mock, openai, db),
          auto_explain \in BOOLEAN, elapsed \in ExecutionTimes :
        /\ op' = "generate_and_execute"
        /\ arg' = [question |-> question, reply |-> reply, auto_explain |-> auto_explain,
                   before |-> db]
        /\ result' = GenerateAndExecute(use_mock, openai, db, question, reply, auto_explain, elapsed)
    /\ db' = DbAfterGenerateSql(db)
    /\ UNCHANGED <<rest_of_process, use_mock, openai, engine>>

\* a caller invokes _mock_generate_sql(question) and the call returns
CallMockGenerateSql ==
    /\ op = "none"
    /\ \E question \in Questions :
        /\ op' = "_mock_generate_sql"
        /\ arg' = [question |-> question]
        /\ result' = MockGenerateSql(question)
    /\ UNCHANGED <<rest_of_process, use_mock, openai, db, engine>>

Next == CallGenerateSql \/ CallGenerateAndExecute \/ CallMockGenerateSql \/ Respond

Spec == Init /\ [][Next]_vars

---------------------------------------------------------------------------
(* The extractors on their own *)

TextTokens == {
    <<Backtick, Backtick, Backtick, "s", "q", "l", "\n">>,
    <<"\n", Backtick, Backtick, Backtick>>,
    <<Backtick, Backtick, Backtick>>,
    <<"S", "E", "L", "E", "C", "T", " ", "*", " ", "F", "R", "O", "M", " ", "t", ";">>,
    <<" ", "S", "E", "L", "E", "C", "T", " ", "2", ";">>,
    <<"p", "y", "t", "h", "o", "n", "\n">>,
    <<"H", "e", "r", "e", ":", " ">> }

Texts == Concats(TextTokens, MaxTextTokens)

InitExtract ==
    /\ use_mock = TRUE
    /\ openai = "OpenAIClient"
    /\ db \in {d \in PipelineDbStates : d.kind = "DatabaseConnector" /\ d.up}
    /\ op = "none"
    /\ arg = <<>>
    /\ result = <<>>
    /\ initialized = FALSE
    /\ collection = <<>>
    /\ store_calls = <<>>
    /\ threads = <<>>
    /\ globals = <<>>
    /\ cache = <<>>
    /\ timestamps = <<>>
    /\ clock = 0
    /\ last_set = <<>>

\* groq_llm_client.extract_sql(text) is called and returns
CallExtractSql ==
    /\ op = "none"
    /\ \E text \in Texts :
        /\ op' = "extract_sql"
        /\ arg' = [text |-> text]
        /\ result' = ExtractSql(text)
    /\ UNCHANGED <<rest_of_process, use_mock, openai, db, engine>>

\* OpenAIClient._extract_sql(response) is called and returns
CallOpenAIExtractSql ==
    /\ op = "none"
    /\ \E text \in Texts :
        /\ op' = "_extract_sql"
        /\ arg' = [text |-> text]
        /\ result' = OpenAIExtractSql(text)
    /\ UNCHANGED <<rest_of_process, use_mock, openai, db, engine>>

NextExtract == CallExtractSql \/ CallOpenAIExtractSql \/ Respond

SpecExtract == InitExtract /\ [][NextExtract]_vars

---------------------------------------------------------------------------
(* RAGEngine: the documents of the schema index *)

Digits == <<"0", "1", "2", "3", "4", "5", "6", "7", "8", "9">>

\* str(n) of a natural number
RECURSIVE NatStr(_)
NatStr(n) == IF n < 10 THEN Digits[n + 1] ELSE NatStr(n \div 10) \o Digits[(n % 10) + 1]

\* sep.join(strs)
RECURSIVE Join(_, _)
Join(sep, strs) ==
    IF strs = <<>> THEN ""
    ELSE IF Len(strs) = 1 THEN strs[1]
    ELSE strs[1] \o sep \o Join(sep, Tail(strs))

\* the code point order of the characters of table names: '_' precedes the
\* lower-case letters
CharRank(c) == IF c = "_" THEN 0 ELSE CHOOSE i \in 1..26 : LowerChars[i] = c

\* s < t for str
RECURSIVE StrLess(_, _)
StrLess(s, t) ==
    IF t = <<>> THEN FALSE
    ELSE IF s = <<>> THEN TRUE
    ELSE IF s[1] = t[1] THEN StrLess(Tail(s), Tail(t))
    ELSE CharRank(s[1]) < CharRank(t[1])

\* sorted(schema.items()): the items in the order of their table names
RECURSIVE SortedItems(_)
SortedItems(items) ==
    IF items = <<>> THEN <<>>
    ELSE LET least == CHOOSE i \in 1..Len(items) :
                        \A j \in 1..Len(items) : j # i => StrLess(items[i].table_name, items[j].table_name)
         IN  <<items[least]>> \o SortedItems([k \in 1..(Len(items) - 1) |->
                                                IF k < least THEN items[k] ELSE items[k + 1]])

\* DatabaseConnector.get_full_schema: the tables in the order the database
\* lists them, each with its get_table_schema record
GetFullSchema(d) ==
    [i \in 1..Len(GetAllTables(d)) |->
        [table_name |-> GetAllTables(d)[i], columns |-> DbColumns(GetAllTables(d)[i])]]

\* the text of one column record inside str(sorted(schema.items()))
ColumnRepr(col) ==
    "{'name': '" \o Str(col.name) \o "', 'type': '" \o col.type \o "', 'nullable': "
    \o (IF col.nullable THEN "True" ELSE "False") \o "}"

\* the text of one item inside str(sorted(schema.items()))
ItemRepr(item) ==
    "('" \o Str(item.table_name) \o "', {'table_name': '" \o Str(item.table_name) \o "', 'columns': ["
    \o Join(", ", [i \in 1..Len(item.columns) |-> ColumnRepr(item.columns[i])]) \o "]})"

\* RAGEngine._compute_schema_hash: the digest of str(sorted(schema.items())).
\* The 16 hex digits of the MD5 digest are represented by the digested text
\* itself: equal texts have equal digests, and distinct schemas of the model
\* have distinct digests.
ComputeSchemaHash(schema) ==
    LET items == SortedItems(schema)
    IN  "md5[" \o Join(", ", [i \in 1..Len(items) |-> ItemRepr(items[i])]) \o "]"

\* the id of the hash-marker document
HashMarkerId(schema) == "schema_hash_" \o ComputeSchemaHash(schema)

\* RAGEngine._create_table_document
CreateTableDocument(table_name, columns) ==
    "Table '" \o Str(table_name) \o "' contains " \o NatStr(Len(columns)) \o " columns: "
    \o Join(", ", [i \in 1..Len(columns) |-> Str(columns[i].name) \o " (" \o columns[i].type \o ")"])
    \o ". This table can be queried using SELECT statements."

\* the semantic hints of _create_column_document, in the order they are tested
ColumnHints == <<
    [words |-> {<<"i", "d">>}, hint |-> "identifier/primary key"],
    [words |-> {<<"n", "a", "m", "e">>}, hint |-> "text/name field"],
    [words |-> {<<"d", "a", "t", "e">>, <<"t", "i", "m", "e">>}, hint |-> "datetime field"],
    [words |-> {<<"p", "r", "i", "c", "e">>, <<"a", "m", "o", "u", "n", "t">>, <<"c", "o", "s", "t">>}, hint |-> "monetary value"],
    [words |-> {<<"c", "o", "u", "n", "t">>, <<"q", "u", "a", "n", "t", "i", "t", "y">>}, hint |-> "numeric count"],
    [words |-> {<<"e", "m", "a", "i", "l">>}, hint |-> "email address"],
    [words |-> {<<"s", "t", "a", "t", "u", "s">>, <<"s", "t", "a", "t", "e">>}, hint |-> "status/state field"],
    [words |-> {<<"i", "s", "_">>, <<"h", "a", "s", "_">>}, hint |-> "boolean flag"] >>

\* RAGEngine._create_column_document
CreateColumnDocument(table_name, column) ==
    LET name_lower == Lower(column.name)
        fired == SelectSeq(ColumnHints, LAMBDA h : \E w \in h.words : Contains(name_lower, w))
        hint_str == IF fired = <<>> THEN ""
                    ELSE " Used for: " \o Join(", ", [i \in 1..Len(fired) |-> fired[i].hint]) \o "."
    IN  "Column '" \o Str(column.name) \o "' in table '" \o Str(table_name) \o "' has type "
        \o column.type \o "." \o hint_str

\* the table document and the column documents of one table, as index_schema
\* appends them
TableDocuments(item) ==
    <<[id |-> "table_" \o Str(item.table_name),
       document |-> CreateTableDocument(item.table_name, item.columns),
       metadata |-> [type |-> "table", table_name |-> item.table_name,
                     column_count |-> Len(item.columns)]]>>
    \o [i \in 1..Len(item.columns) |->
          [id |-> "column_" \o Str(item.table_name) \o "_" \o Str(item.columns[i].name),
           document |-> CreateColumnDocument(item.table_name, item.columns[i]),
           metadata |-> [type |-> "column", table_name |-> item.table_name,
                         column_name |-> item.columns[i].name,
                         column_type |-> item.columns[i].type]]]

\* the hash-marker document
HashDocument(schema) ==
    [id |-> HashMarkerId(schema),
     document |-> "Schema hash: " \o ComputeSchemaHash(schema),
     metadata |-> [type |-> "hash"]]

\* str(sample) of the rows get_sample_data returns for a table
SampleRepr(table_name) == "[{'" \o Str(DbColumns(table_name)[1].name) \o "': 1}]"

\* RAGEngine._create_sample_data_documents, where sampled is the set of
\* tables for which get_sample_data returns rows; for the others it returns
\* [] (an empty table, or a query that failed inside execute_query)
RECURSIVE CreateSampleDataDocuments(_, _)
CreateSampleDataDocuments(schema, sampled) ==
    IF schema = <<>> THEN <<>>
    ELSE (IF schema[1].table_name \in sampled
          THEN <<[id |-> "sample_" \o Str(schema[1].table_name),
                  document |-> "Sample data from " \o Str(schema[1].table_name) \o ": "
                               \o SampleRepr(schema[1].table_name),
                  metadata |-> [type |-> "sample", table_name |-> schema[1].table_name]]>>
          ELSE <<>>) \o CreateSampleDataDocuments(Tail(schema), sampled)

\* the table and column documents of every table, in schema order
RECURSIVE SchemaDocuments(_)
SchemaDocuments(schema) ==
    IF schema = <<>> THEN <<>> ELSE TableDocuments(schema[1]) \o SchemaDocuments(Tail(schema))

\* a variant that forgets the hash marker
IndexDocumentsNoMarker(schema, sampled) ==
    SchemaDocuments(schema) \o CreateSampleDataDocuments(schema, sampled)

\* the batch index_schema prepares: table and column documents, the hash
\* marker, then the sample documents
IndexDocuments(schema, sampled) ==
    SchemaDocuments(schema) \o <<HashDocument(schema)>> \o CreateSampleDataDocuments(schema, sampled)

---------------------------------------------------------------------------
(* The vector collection (chromadb.Collection) as RAGEngine uses it *)

\* str(e) of an exception the vector store raises when it is unavailable
StoreError == "vector store unavailable"

\* str(e) of the exception collection.add raises for a batch that repeats an id
DuplicateIdError == "Expected IDs to be unique, found duplicates"

\* the ids of a sequence of documents
IdsOf(docs) == [i \in 1..Len(docs) |-> docs[i].id]

\* collection.get(ids=[id])["ids"] is not empty
HasId(coll, id) == \E i \in 1..Len(coll) : coll[i].id = id

\* a variant of add that rejects a record whose id is already stored
StoreAddRejectingStored(coll, docs, fault) ==
    IF fault = "add" THEN [raised |-> TRUE, error |-> StoreError, collection |-> coll]
    ELSE IF \/ \E i, j \in 1..Len(docs) : i # j /\ docs[i].id = docs[j].id
            \/ \E i \in 1..Len(docs) : HasId(coll, docs[i].id)
         THEN [raised |-> TRUE, error |-> DuplicateIdError, collection |-> coll]
         ELSE [raised |-> FALSE, error |-> "None", collection |-> coll \o docs]

\* collection.add(documents, metadatas, ids): a batch that repeats an id is
\* rejected; a record whose id the collection already holds is ignored and the
\* stored record stays
StoreAdd(coll, docs, fault) ==
    IF fault = "add" THEN [raised |-> TRUE, error |-> StoreError, collection |-> coll]
    ELSE IF \E i, j \in 1..Len(docs) : i # j /\ docs[i].id = docs[j].id
         THEN [raised |-> TRUE, error |-> DuplicateIdError, collection |-> coll]
         ELSE [raised |-> FALSE, error |-> "None",
               collection |-> coll \o SelectSeq(docs, LAMBDA doc : ~HasId(coll, doc.id))]

\* the reverse of a sequence
Reverse(seq) == [i \in 1..Len(seq) |-> seq[Len(seq) + 1 - i]]

\* the sequence rotated by k places
Rotate(seq, k) == [i \in 1..Len(seq) |-> seq[((i - 1 + k) % Len(seq)) + 1]]

\* The documents of the collection by increasing distance from the query
\* text. The order depends on the embeddings; ranking names one order.
Ranked(coll, ranking) ==
    IF ranking.reversed THEN Reverse(Rotate(coll, ranking.shift)) ELSE Rotate(coll, ranking.shift)

\* collection.query(query_texts=[query], n_results, include=[documents,
\* metadatas, distances]): one list per query text, holding the n_results
\* nearest documents; the i-th nearest is at distance i - 1
StoreQuery(coll, n_results, ranking, fault) ==
    IF fault = "query" THEN [raised |-> TRUE, error |-> StoreError]
    ELSE LET nearest == SubSeq(Ranked(coll, ranking), 1, IF n_results < Len(coll) THEN n_results ELSE Len(coll))
         IN  [raised |-> FALSE,
              documents |-> <<[i \in 1..Len(nearest) |-> nearest[i].document]>>,
              metadatas |-> <<[i \in 1..Len(nearest) |-> nearest[i].metadata]>>,
              distances |-> <<[i \in 1..Len(nearest) |-> i - 1]>>]

---------------------------------------------------------------------------
(* RAGEngine.initialize and RAGEngine.index_schema *)

\* RAGEngine.initialize: opening the persistent client and the collection
\* either succeeds or raises
Initialize(fault) == fault # "initialize"

\* the initialize() of an operation that finds the engine uninitialized
EnsureInitialized(inited, fault) == inited \/ Initialize(fault)

\* RAGEngine._clear_collection: get every id and delete them; an exception of
\* either call is logged and swallowed
ClearCollection(coll, fault) ==
    IF fault = "clear_get" THEN [collection |-> coll, calls |-> <<[call |-> "get"]>>]
    ELSE IF coll = <<>> THEN [collection |-> coll, calls |-> <<[call |-> "get"]>>]
    ELSE IF fault = "delete"
         THEN [collection |-> coll, calls |-> <<[call |-> "get"], [call |-> "delete", ids |-> IdsOf(coll)]>>]
         ELSE [collection |-> <<>>, calls |-> <<[call |-> "get"], [call |-> "delete", ids |-> IdsOf(coll)]>>]

\* a variant that never finds the hash marker
AlreadyIndexedNever(coll, schema) == FALSE

\* the non-forced check of index_schema: the marker of this schema is stored
AlreadyIndexed(coll, schema) == HasId(coll, HashMarkerId(schema))

\* the result index_schema starts from
IndexResult == [success |-> FALSE, tables_indexed |-> 0, documents_added |-> 0, error |-> "None"]

\* index_schema from the batch preparation on: the documents are added in one
\* call, after the clear step of a forced reindex
IndexBatch(coll, schema, sampled, fault, calls) ==
    LET documents == IndexDocuments(schema, sampled)
        added == StoreAdd(coll, documents, fault)
        calls_made == calls \o <<[call |-> "add", ids |-> IdsOf(documents),
                                   metadatas |-> [i \in 1..Len(documents) |-> documents[i].metadata]]>>
    IN  IF added.raised
        THEN [result |-> [IndexResult EXCEPT !.error = added.error],
              collection |-> coll, calls |-> calls_made]
        ELSE [result |-> [IndexResult EXCEPT !.success = TRUE,
                                             !.tables_indexed = Len(schema),
                                             !.documents_added = Len(documents)],
              collection |-> added.collection, calls |-> calls_made]

\* RAGEngine.index_schema(force_reindex) on the engine state (inited, coll)
\* and the database d: the result, the collection afterwards and the calls
\* made on it. sampled is the set of tables whose sample lookup returns rows;
\* fault names the step at which the vector store raises, if any.
IndexSchema(inited, coll, d, force_reindex, sampled, fault) ==
    LET schema == GetFullSchema(d)
        marker_get == <<[call |-> "get", ids |-> <<HashMarkerId(schema)>>]>>
    IN  IF ~EnsureInitialized(inited, fault)
        THEN [result |-> [IndexResult EXCEPT !.error = "Failed to initialize RAG engine"],
              collection |-> coll, calls |-> <<>>]
        ELSE IF ~force_reindex
        THEN IF fault = "get"
             THEN [result |-> [IndexResult EXCEPT !.error = StoreError],
                   collection |-> coll, calls |-> marker_get]
             ELSE IF AlreadyIndexed(coll, schema)
                  THEN [result |-> [success |-> TRUE, tables_indexed |-> 0, documents_added |-> 0,
                                    error |-> "None", message |-> "Schema already indexed"],
                        collection |-> coll, calls |-> marker_get]
                  ELSE IndexBatch(coll, schema, sampled, fault, marker_get)
        ELSE LET cleared == ClearCollection(coll, fault)
             IN  IndexBatch(cleared.collection, schema, sampled, fault, cleared.calls)

---------------------------------------------------------------------------
(* RAGEngine.retrieve_context and RAGEngine.get_relevant_schema *)

\* context_parts[:10]
ContextLimit == 10

\* the candidate count get_relevant_schema asks for
RelevantCandidates == 20

\* RAGEngine._build_context_string
BuildContextString(tables, context_parts) ==
    LET parts == SubSeq(context_parts, 1,
                        IF Len(context_parts) < ContextLimit THEN Len(context_parts) ELSE ContextLimit)
    IN  "Retrieved Context:\n----------------------------------------\nRelevant tables: "
        \o Join(", ", [i \in 1..Len(tables) |-> Str(tables[i])]) \o "\n\nDetails:"
        \o Join("", [i \in 1..Len(parts) |-> "\n- " \o parts[i]])

\* list(tables) of a set of table names: the iteration order of a set of
\* strings is not defined; order names the one this run produces
ListOf(tables, order) == SelectSeq(order, LAMBDA t : t \in tables)

\* the result retrieve_context starts from
RetrieveResult == [success |-> FALSE, context |-> "", tables |-> <<>>, columns |-> <<>>, error |-> "None"]

\* the loop of retrieve_context over the matches: the positions of the table
\* and column documents among them
Partitioned(metadatas) == SelectSeq([i \in 1..Len(metadatas) |-> i],
                                    LAMBDA i : metadatas[i].type \in {"table", "column"})

\* the set retrieve_context collects in tables: the table names of the table
\* and column documents among the matches; empty when the call fails first
MatchedTables(inited, coll, n_results, ranking, fault) ==
    IF ~EnsureInitialized(inited, fault) THEN {}
    ELSE LET query_result == StoreQuery(coll, n_results, ranking, fault)
         IN  IF query_result.raised \/ query_result.documents = <<>> THEN {}
             ELSE LET metas == query_result.metadatas[1]
                      kept == Partitioned(metas)
                  IN  {metas[kept[k]].table_name : k \in 1..Len(kept)}

\* RAGEngine.retrieve_context(query, n_results)
RetrieveContext(inited, coll, n_results, ranking, fault, order) ==
    IF ~EnsureInitialized(inited, fault)
    THEN [RetrieveResult EXCEPT !.error = "RAG engine not initialized"]
    ELSE LET query_result == StoreQuery(coll, n_results, ranking, fault)
         IN  IF query_result.raised THEN [RetrieveResult EXCEPT !.error = query_result.error]
             ELSE IF query_result.documents = <<>> THEN [RetrieveResult EXCEPT !.error = "No results found"]
             ELSE LET docs == query_result.documents[1]
                      metas == query_result.metadatas[1]
                      dists == query_result.distances[1]
                      kept == Partitioned(metas)
                      column_at == SelectSeq(kept, LAMBDA i : metas[i].type = "column")
                      tables == ListOf(MatchedTables(inited, coll, n_results, ranking, fault), order)
                  IN  [success |-> TRUE,
                       context |-> BuildContextString(tables, [k \in 1..Len(kept) |-> docs[kept[k]]]),
                       tables  |-> tables,
                       columns |-> [k \in 1..Len(column_at) |->
                                       [table     |-> metas[column_at[k]].table_name,
                                        column    |-> metas[column_at[k]].column_name,
                                        type      |-> metas[column_at[k]].column_type,
                                        relevance |-> 1 - dists[column_at[k]]]],
                       error   |-> "None"]

\* DatabaseConnector.get_table_schema(table_name).get("columns", []): the
\* columns, or none when the inspection raises (database unreachable, or no
\* such table)
GetTableColumns(d, table_name) ==
    IF d.up /\ InSeq(table_name, d.tables) THEN DbColumns(table_name) ELSE <<>>

\* the lines get_relevant_schema emits for the relevant tables
RECURSIVE RelevantLines(_, _)
RelevantLines(d, tables) ==
    IF tables = <<>> THEN ""
    ELSE "\n\nTable: " \o Str(tables[1]) \o ColumnLines(GetTableColumns(d, tables[1]))
         \o RelevantLines(d, Tail(tables))

\* a variant without the fallback for an empty table set
GetRelevantSchemaNoFallback(inited, coll, d, max_tables, ranking, fault, order) ==
    LET context_result == RetrieveContext(inited, coll, RelevantCandidates, ranking, fault, order)
    IN  IF ~context_result.success THEN GetSchemaForPrompt(d)
        ELSE "Relevant Database Schema:\n========================================"
             \o RelevantLines(d, SubSeq(context_result.tables, 1,
                     IF max_tables < Len(context_result.tables) THEN max_tables ELSE Len(context_result.tables)))

\* RAGEngine.get_relevant_schema(query, max_tables)
GetRelevantSchema(inited, coll, d, max_tables, ranking, fault, order) ==
    LET context_result == RetrieveContext(inited, coll, RelevantCandidates, ranking, fault, order)
        relevant_tables == SubSeq(context_result.tables, 1,
                                  IF max_tables < Len(context_result.tables) THEN max_tables
                                  ELSE Len(context_result.tables))
    IN  IF ~context_result.success THEN GetSchemaForPrompt(d)
        ELSE IF relevant_tables = <<>> THEN GetSchemaForPrompt(d)
        ELSE "Relevant Database Schema:\n========================================"
             \o RelevantLines(d, relevant_tables)

---------------------------------------------------------------------------
(* The retrieval engine over a database whose schema changes *)

OrderTable == <<"o", "r", "d", "e", "r">>

OrderItems == <<"o", "r", "d", "e", "r", "_", "i", "t", "e", "m", "s">>

Products == <<"p", "r", "o", "d", "u", "c", "t", "s">>

\* the table lists the database holds over time
RagTableLists == {
    <<Customers, Orders>>,
    <<OrderTable, OrderItems>>,
    <<Customers, Orders, OrderItems>> }

\* the sets of tables whose sample lookup returns rows: all of them, or the
\* first only (the others are empty, or their query fails)
SampleOutcomes(d) ==
    LET tables == {GetAllTables(d)[i] : i \in 1..Len(GetAllTables(d))}
    IN  {tables, {t \in tables : t = GetAllTables(d)[1]}}

\* a variant of initialize that returns at once on an initialized engine
InitializeOnce(inited, fault) == inited \/ fault # "initialize"

\* the value initialize() returns on the engine state inited: the client and
\* the collection are opened again whatever the state
InitializeOn(inited, fault) == Initialize(fault)

\* the name RAGEngine binds its collection to
CollectionName == "schema_embeddings"

\* RAGEngine.get_stats
GetStats(inited, coll, fault) ==
    IF ~inited THEN [initialized |-> FALSE]
    ELSE IF fault = "count" THEN [initialized |-> TRUE, error |-> StoreError]
    ELSE [initialized |-> TRUE, collection_name |-> CollectionName,
          document_count |-> Len(coll), persist_directory |-> "data/chroma"]

\* the step of index_schema at which the vector store raises, if any
IndexFaults == {"none", "initialize", "get", "clear_get", "delete", "add"}

\* the step of a retrieval at which the vector store raises, if any
RetrieveFaults == {"none", "initialize", "query"}

\* the greatest rotation of the stored order a ranking applies
MaxShift == 1

\* the similarity orders a query may produce
Rankings == [reversed : BOOLEAN, shift : 0..MaxShift]

\* the orders in which list(tables) may list a set of table names: the
\* iteration order of a set of strings follows the string hashes of the
\* process, so every arrangement of the set is possible
TableOrders(tables) ==
    {order \in [1..Cardinality(tables) -> tables] :
        \A i, j \in 1..Cardinality(tables) : i # j => order[i] # order[j]}

\* the ranking recorded for a retrieval that fails before it ranks anything
FirstRanking == [reversed |-> FALSE, shift |-> 0]

\* the candidate counts retrieve_context is called with: its default and others
NResults == {2, 10, 20}

\* the max_tables get_relevant_schema is called with: its default and others
MaxTablesArgs == {1, 5}

InitRag ==
    /\ use_mock = TRUE
    /\ openai = "OpenAIClient"
    /\ db = [kind |-> "DatabaseConnector", up |-> TRUE, connected |-> FALSE, tables |-> <<Customers, Orders>>]
    /\ op = "none"
    /\ arg = <<>>
    /\ result = <<>>
    /\ initialized = FALSE
    /\ collection = <<>>
    /\ store_calls = <<>>
    /\ threads = <<>>
    /\ globals = <<>>
    /\ cache = <<>>
    /\ timestamps = <<>>
    /\ clock = 0
    /\ last_set = <<>>

\* a caller invokes initialize() and the call returns
CallInitialize ==
    /\ op = "none"
    /\ \E fault \in {"none", "initialize"} :
        /\ op' = "initialize"
        /\ arg' = [fault |-> fault, was_initialized |-> initialized, before |-> collection]
        /\ result' = InitializeOn(initialized, fault)
        /\ initialized' = (initialized \/ InitializeOn(initialized, fault))
    /\ store_calls' = <<>>
    /\ UNCHANGED <<rest_of_process, use_mock, openai, db, collection>>

\* a caller invokes get_stats() and the call returns; get_stats does not
\* initialize the engine
CallGetStats ==
    /\ op = "none"
    /\ \E fault \in {"none", "count"} :
        /\ op' = "get_stats"
        /\ arg' = [fault |-> fault, was_initialized |-> initialized, before |-> collection]
        /\ result' = GetStats(initialized, collection, fault)
        /\ store_calls' = IF initialized THEN <<[call |-> "count"]>> ELSE <<>>
    /\ UNCHANGED <<rest_of_process, use_mock, openai, db, initialized, collection>>

\* a caller invokes index_schema(force_reindex) and the call returns
CallIndexSchema ==
    /\ op = "none"
    /\ \E force_reindex \in BOOLEAN, sampled \in SampleOutcomes(db), fault \in IndexFaults :
        LET done == IndexSchema(initialized, collection, db, force_reindex, sampled, fault)
        IN  /\ op' = "index_schema"
            /\ arg' = [force_reindex |-> force_reindex, sampled |-> sampled, fault |-> fault,
                       before |-> collection]
            /\ result' = done.result
            /\ collection' = done.collection
            /\ store_calls' = done.calls
            /\ initialized' = EnsureInitialized(initialized, fault)
            /\ db' = IF EnsureInitialized(initialized, fault) THEN AfterEnsureConnected(db) ELSE db
    /\ UNCHANGED <<rest_of_process, use_mock, openai>>

\* the caller of index_schema calls index_schema() again at once
CallIndexSchemaAgain ==
    /\ op = "index_schema"
    /\ \E sampled \in SampleOutcomes(db) :
        LET done == IndexSchema(initialized, collection, db, FALSE, sampled, "none")
        IN  /\ op' = "index_schema"
            /\ arg' = [force_reindex |-> FALSE, sampled |-> sampled, fault |-> "none",
                       before |-> collection,
                       first |-> [force_reindex |-> arg.force_reindex, result |-> result,
                                  calls |-> store_calls]]
            /\ result' = done.result
            /\ collection' = done.collection
            /\ store_calls' = done.calls
            /\ initialized' = TRUE
            /\ db' = AfterEnsureConnected(db)
    /\ UNCHANGED <<rest_of_process, use_mock, openai>>

\* a caller invokes retrieve_context(query, n_results) and the call returns
CallRetrieveContext ==
    /\ op = "none"
    /\ \E n_results \in NResults, ranking \in Rankings, fault \in RetrieveFaults :
      \E order \in TableOrders(MatchedTables(initialized, collection, n_results, ranking, fault)) :
        /\ fault # "none" => ranking = FirstRanking
        /\ op' = "retrieve_context"
        /\ arg' = [n_results |-> n_results, ranking |-> ranking, fault |-> fault, order |-> order]
        /\ result' = RetrieveContext(initialized, collection, n_results, ranking, fault, order)
        /\ store_calls' = IF EnsureInitialized(initialized, fault)
                          THEN <<[call |-> "query", n_results |-> n_results]>> ELSE <<>>
        /\ initialized' = EnsureInitialized(initialized, fault)
    /\ UNCHANGED <<rest_of_process, use_mock, openai, db, collection>>

\* a caller invokes get_relevant_schema(query, max_tables) and the call returns
CallGetRelevantSchema ==
    /\ op = "none"
    /\ \E max_tables \in MaxTablesArgs, ranking \in Rankings, fault \in RetrieveFaults :
      \E order \in TableOrders(MatchedTables(initialized, collection, RelevantCandidates, ranking, fault)) :
        /\ fault # "none" => ranking = FirstRanking
        /\ op' = "get_relevant_schema"
        /\ arg' = [max_tables |-> max_tables, ranking |-> ranking, fault |-> fault, order |-> order]
        /\ result' = GetRelevantSchema(initialized, collection, db, max_tables, ranking, fault, order)
        /\ store_calls' = IF EnsureInitialized(initialized, fault)
                          THEN <<[call |-> "query", n_results |-> RelevantCandidates]>> ELSE <<>>
        /\ initialized' = EnsureInitialized(initialized, fault)
    /\ db' = AfterEnsureConnected(db)
    /\ UNCHANGED <<rest_of_process, use_mock, openai, collection>>

\* the schema of the database is changed behind the engine
SchemaChange ==
    /\ op = "none"
    /\ \E tables \in RagTableLists \ {db.tables} : db' = [db EXCEPT !.tables = tables]
    /\ UNCHANGED <<rest_of_process, use_mock, openai, op, arg, result, engine>>

\* the table DataLoader loads a frame into: created where the database has
\* none of that name, replaced where it has
LoadedTables == {OrderItems}

\* a caller invokes DatabaseConnector.connect() on the shared connector: the
\* attempt sets _connected to its outcome, also on a connected connector
Connect ==
    /\ op = "none"
    /\ db.kind = "DatabaseConnector"
    /\ db' = [db EXCEPT !.connected = db.up]
    /\ UNCHANGED <<rest_of_process, use_mock, openai, op, arg, result, engine>>

\* a caller invokes DatabaseConnector.disconnect() on the shared connector
Disconnect ==
    /\ op = "none"
    /\ db.kind = "DatabaseConnector"
    /\ db' = [db EXCEPT !.connected = FALSE]
    /\ UNCHANGED <<rest_of_process, use_mock, openai, op, arg, result, engine>>

\* DataLoader.load_dataframe_to_db(df, table_name) as the database and the
\* shared connector see it: the connector is connected if it was not, and
\* to_sql creates the table, or replaces it, when the database answers; the
\* record the call returns describes the frame and is not kept
LoadDataframeToDb ==
    /\ op = "none"
    /\ db.kind = "DatabaseConnector"
    /\ \E table_name \in LoadedTables :
        db' = IF db.up
              THEN [db EXCEPT !.connected = TRUE,
                              !.tables = IF InSeq(table_name, db.tables) THEN db.tables
                                         ELSE Append(db.tables, table_name)]
              ELSE AfterEnsureConnected(db)
    /\ UNCHANGED <<rest_of_process, use_mock, openai, op, arg, result, engine>>

\* the database becomes unreachable, or reachable again
DbAvailability ==
    /\ op = "none"
    /\ db' = [db EXCEPT !.up = ~db.up]
    /\ UNCHANGED <<rest_of_process, use_mock, openai, op, arg, result, engine>>

NextRag ==
    \/ CallInitialize
    \/ CallGetStats
    \/ CallIndexSchema
    \/ CallIndexSchemaAgain
    \/ CallRetrieveContext
    \/ CallGetRelevantSchema
    \/ SchemaChange
    \/ DbAvailability
    \/ Connect
    \/ Disconnect
    \/ LoadDataframeToDb
    \/ Respond

SpecRag == InitRag /\ [][NextRag]_vars

---------------------------------------------------------------------------
(* Two index_schema calls on concurrent threads over one engine *)

\* collection.delete(ids): the records with these ids are removed
StoreDelete(coll, ids) == SelectSeq(coll, LAMBDA doc : ~InSeq(doc.id, ids))

\* the threads that call index_schema
ReindexThreads == {1, 2}

\* the schemas of the database of these runs
ReindexSchemas == {
    <<Customers, Orders>>,
    <<Orders, Products, Customers, OrderItems>> }

\* every table has sample rows
AllSampled(d) == {GetAllTables(d)[i] : i \in 1..Len(GetAllTables(d))}

\* the collections the calls may find: empty, or the index of one of the
\* schemas (the current one, or an earlier one)
StartingCollections ==
    {<<>>} \cup
    {LET d == [kind |-> "DatabaseConnector", up |-> TRUE, connected |-> TRUE, tables |-> tables]
     IN  IndexDocuments(GetFullSchema(d), AllSampled(d)) : tables \in ReindexSchemas}

InitReindex ==
    /\ use_mock = TRUE
    /\ openai = "OpenAIClient"
    /\ db \in {[kind |-> "DatabaseConnector", up |-> TRUE, connected |-> FALSE, tables |-> tables] :
                  tables \in ReindexSchemas}
    /\ op = "none"
    /\ collection \in StartingCollections
    /\ arg = [before |-> collection]
    /\ result = <<>>
    /\ initialized = FALSE
    /\ store_calls = <<>>
    /\ threads = [t \in ReindexThreads |-> [pc |-> "idle"]]
    /\ globals = <<>>
    /\ cache = <<>>
    /\ timestamps = <<>>
    /\ clock = 0
    /\ last_set = <<>>

\* thread t calls index_schema(force_reindex): an uninitialized engine is
\* initialized (lines 91-94)
EnterIndexSchema(t) ==
    /\ threads[t].pc = "idle"
    /\ \E force_reindex \in BOOLEAN :
        threads' = [threads EXCEPT ![t] = [pc |-> "connect", force_reindex |-> force_reindex]]
    /\ initialized' = EnsureInitialized(initialized, "none")
    /\ UNCHANGED <<use_mock, openai, db, op, arg, result, collection, store_calls,
                   globals, cache, timestamps, clock, last_set>>

\* if not self.db.is_connected: self.db.connect() (lines 97-98): the call
\* returns when the database has answered
ConnectDatabase(t) ==
    /\ threads[t].pc = "connect"
    /\ threads' = [threads EXCEPT ![t] = [pc |-> "schema", force_reindex |-> threads[t].force_reindex]]
    /\ db' = AfterEnsureConnected(db)
    /\ UNCHANGED <<use_mock, openai, op, arg, result, engine, globals, cache, timestamps, clock, last_set>>

\* full_schema = self.db.get_full_schema() and its hash (lines 101-102): the
\* call keeps the schema it read
ReadSchema(t) ==
    /\ threads[t].pc = "schema"
    /\ threads' = [threads EXCEPT ![t] =
          [pc |-> IF threads[t].force_reindex THEN "clear_get" ELSE "check",
           force_reindex |-> threads[t].force_reindex,
           schema |-> GetFullSchema(db),
           sampled |-> AllSampled(db)]]
    /\ db' = AfterEnsureConnected(db)
    /\ UNCHANGED <<use_mock, openai, op, arg, result, engine, globals, cache, timestamps, clock, last_set>>

\* the non-forced check: collection.get(ids=[marker]); the call skips when the
\* marker is stored
CheckMarker(t) ==
    /\ threads[t].pc = "check"
    /\ threads' = [threads EXCEPT ![t] =
          IF AlreadyIndexed(collection, threads[t].schema)
          THEN [pc |-> "done", force_reindex |-> FALSE,
                result |-> [success |-> TRUE, tables_indexed |-> 0, documents_added |-> 0,
                            error |-> "None", message |-> "Schema already indexed"]]
          ELSE [threads[t] EXCEPT !.pc = "add"]]
    /\ UNCHANGED <<use_mock, openai, db, op, arg, result, engine, globals, cache, timestamps, clock, last_set>>

\* _clear_collection, first call: existing = collection.get()
ClearGet(t) ==
    /\ threads[t].pc = "clear_get"
    /\ threads' = [threads EXCEPT ![t] =
          IF collection = <<>> THEN [threads[t] EXCEPT !.pc = "add"]
          ELSE [pc |-> "delete", force_reindex |-> TRUE, schema |-> threads[t].schema,
                sampled |-> threads[t].sampled, ids |-> IdsOf(collection)]]
    /\ UNCHANGED <<use_mock, openai, db, op, arg, result, engine, globals, cache, timestamps, clock, last_set>>

\* _clear_collection, second call: collection.delete(ids=existing["ids"])
ClearDelete(t) ==
    /\ threads[t].pc = "delete"
    /\ collection' = StoreDelete(collection, threads[t].ids)
    /\ threads' = [threads EXCEPT ![t] = [pc |-> "add", force_reindex |-> TRUE,
                                          schema |-> threads[t].schema,
                                          sampled |-> threads[t].sampled]]
    /\ UNCHANGED <<use_mock, openai, db, op, arg, result, initialized, store_calls,
                   globals, cache, timestamps, clock, last_set>>

\* the batch add of the documents of the schema, and the return
BatchAdd(t) ==
    /\ threads[t].pc = "add"
    /\ LET done == IndexBatch(collection, threads[t].schema, threads[t].sampled, "none", <<>>)
       IN  /\ collection' = done.collection
           /\ threads' = [threads EXCEPT ![t] = [pc |-> "done",
                                                 force_reindex |-> threads[t].force_reindex,
                                                 result |-> done.result]]
    /\ UNCHANGED <<use_mock, openai, db, op, arg, result, initialized, store_calls,
                   globals, cache, timestamps, clock, last_set>>

NextReindex ==
    \E t \in ReindexThreads :
        \/ EnterIndexSchema(t)
        \/ ConnectDatabase(t)
        \/ ReadSchema(t)
        \/ CheckMarker(t)
        \/ ClearGet(t)
        \/ ClearDelete(t)
        \/ BatchAdd(t)

SpecReindex == InitReindex /\ [][NextReindex]_vars

---------------------------------------------------------------------------
(* The HTTP routes of app.py: POST /generate-sql and POST /explain-sql *)

\* the markdown fence the explanation route strips
FenceJson == <<Backtick, Backtick, Backtick, "j", "s", "o", "n">>

\* str.replace(old, new) for a non-empty old: occurrences are replaced from
\* the left and do not overlap
RECURSIVE Replace(_, _, _)
Replace(s, old, new) ==
    IF s = <<>> THEN <<>>
    ELSE IF StartsWith(s, old)
         THEN new \o Replace(SubSeq(s, Len(old) + 1, Len(s)), old, new)
         ELSE <<Head(s)>> \o Replace(Tail(s), old, new)

\* a JSON object the model may answer with
ExplanationJson ==
    <<"{", "\"", "s", "u", "m", "m", "a", "r", "y", "\"", ":", " ", "\"", "s", "\"", "}">>

\* a JSON document that is not an object
ListJson == <<"[", "]">>

\* json.loads on the texts of these runs: the two JSON documents parse to
\* their values, every other text raises JSONDecodeError
JsonLoads(text) ==
    IF text = ExplanationJson THEN [raised |-> FALSE, value |-> [summary |-> "s"]]
    ELSE IF text = ListJson THEN [raised |-> FALSE, value |-> <<>>]
    ELSE [raised |-> TRUE]

\* the message contents the model may return for an explanation request: the
\* object bare, fenced, padded with whitespace, preceded by prose, cut short,
\* followed by a stray fence, a bare list, and nothing
ExplainContents == {
    ExplanationJson,
    FenceJson \o <<"\n">> \o ExplanationJson \o <<"\n">> \o Fence,
    Fence \o <<"\n">> \o ExplanationJson \o <<"\n">> \o Fence,
    <<" ">> \o ExplanationJson \o <<"\n">>,
    <<"S", "u", "r", "e", ":", " ">> \o ExplanationJson,
    SubSeq(ExplanationJson, 1, Len(ExplanationJson) - 1),
    ExplanationJson \o Fence,
    ListJson,
    FenceJson \o Fence,
    <<>> }

\* the outcomes of groq_client.chat.completions.create: the request raises,
\* the message carries no content, or it carries a text
ExplainReplies ==
    {[ok |-> TRUE, content |-> c] : c \in ExplainContents}
    \cup {[ok |-> TRUE, content_is_none |-> TRUE]}
    \cup {[ok |-> FALSE, error |-> "Connection error."]}

\* the SQL texts posted to /explain-sql
ExplainSqls == {<<>>, <<"S", "E", "L", "E", "C", "T", " ", "1", ";">>, <<" ">>}

\* raw_text.replace("```json", "").replace("```", "").strip()
CleanExplanation(raw_text) == Strip(Replace(Replace(raw_text, FenceJson, <<>>), Fence, <<>>))

\* app.generate_sql: the handler of POST /generate-sql
AppGenerateSql(mock, client, d, question, reply) ==
    IF question = <<>>
    THEN [status |-> 400, detail |-> "Question is required"]
    ELSE [status |-> 200, body |-> GenerateSql(mock, client, d, question, reply)]

\* the collaborator calls app.generate_sql makes
AppGenerateSqlCalls(question) ==
    IF question = <<>> THEN <<>> ELSE <<"sql_generator.generate_sql">>

\* a variant of the explanation handler without the JSONDecodeError clause
AppExplainSqlUncaught(sql, reply) ==
    IF sql = <<>>
    THEN [status |-> 400, detail |-> "SQL query is required"]
    ELSE IF ~reply.ok
         THEN [status |-> 200, body |-> [success |-> FALSE, error |-> reply.error]]
         ELSE IF "content" \notin DOMAIN reply
              THEN [status |-> 200,
                    body |-> [success |-> FALSE,
                              error |-> "'NoneType' object has no attribute 'strip'"]]
              ELSE LET explanation == JsonLoads(CleanExplanation(Strip(reply.content)))
                   IN  IF explanation.raised
                       THEN [status |-> 500, detail |-> "Internal Server Error"]
                       ELSE [status |-> 200,
                             body |-> [success |-> TRUE, explanation |-> explanation.value]]

\* app.explain_sql: the handler of POST /explain-sql
AppExplainSql(sql, reply) ==
    IF sql = <<>>
    THEN [status |-> 400, detail |-> "SQL query is required"]
    ELSE IF ~reply.ok
         THEN [status |-> 200, body |-> [success |-> FALSE, error |-> reply.error]]
         ELSE IF "content" \notin DOMAIN reply
              THEN [status |-> 200,
                    body |-> [success |-> FALSE,
                              error |-> "'NoneType' object has no attribute 'strip'"]]
              ELSE LET explanation == JsonLoads(CleanExplanation(Strip(reply.content)))
                   IN  IF explanation.raised
                       THEN [status |-> 200,
                             body |-> [success |-> FALSE,
                                       error |-> "Failed to parse explanation response"]]
                       ELSE [status |-> 200,
                             body |-> [success |-> TRUE, explanation |-> explanation.value]]

\* the collaborator calls app.explain_sql makes
AppExplainSqlCalls(sql) ==
    IF sql = <<>> THEN <<>> ELSE <<"groq_client.chat.completions.create">>

\* a client posts {question} to /generate-sql and receives the response
PostGenerateSql ==
    /\ op = "none"
    /\ \E question \in QuestionsFor(use_mock) \cup {<<>>},
          reply \in RepliesFor(use_mock, openai, db) :
        /\ op' = "POST /generate-sql"
        /\ arg' = [question |-> question, reply |-> reply, before |-> db]
        /\ result' = AppGenerateSql(use_mock, openai, db, question, reply)
        /\ db' = IF question = <<>> THEN db ELSE DbAfterGenerateSql(db)
    /\ UNCHANGED <<rest_of_process, use_mock, openai, engine>>

\* a client posts {sql} to /explain-sql and receives the response
PostExplainSql ==
    /\ op = "none"
    /\ \E sql \in ExplainSqls, reply \in ExplainReplies :
        /\ op' = "POST /explain-sql"
        /\ arg' = [sql |-> sql, reply |-> IF sql = <<>> THEN NoReply ELSE reply]
        /\ result' = AppExplainSql(sql, reply)
    /\ UNCHANGED <<rest_of_process, use_mock, openai, db, engine>>

NextApp == PostGenerateSql \/ PostExplainSql \/ Respond

SpecApp == Init /\ [][NextApp]_vars

---------------------------------------------------------------------------
(* The singleton getters called from concurrent threads *)

\* get_rag_engine, get_db_connector, get_openai_client, get_sql_generator
Getters == {"get_rag_engine", "get_db_connector", "get_openai_client", "get_sql_generator"}

\* the threads that call the getters
GetterThreads == {1, 2}

\* the value None of a module-level singleton variable; the objects
\* constructed are numbered from 1 per class
NoInstance == 0

\* where a getter goes after finding its variable None: RAGEngine.__init__
\* and get_sql_generator call get_db_connector() before the object exists
AfterCheck(getter) ==
    IF getter \in {"get_rag_engine", "get_sql_generator"} THEN "call_db" ELSE "assign"

\* where get_sql_generator and RAGEngine.__init__ go on once
\* get_db_connector() has returned
AfterCallDb(getter) == IF getter = "get_sql_generator" THEN "call_openai" ELSE "assign"

\* the frame on top of the call stack of thread t
Top(t) == threads[t].stack[Len(threads[t].stack)]

\* thread t is inside a getter, at position pc
At(t, pc) == threads[t].stack # <<>> /\ Top(t).pc = pc

\* the stack of thread t with the position of its top frame replaced
Goto(t, pc) ==
    [threads[t].stack EXCEPT ![Len(threads[t].stack)] = [getter |-> Top(t).getter, pc |-> pc]]

InitGetters ==
    /\ use_mock = TRUE
    /\ openai = "OpenAIClient"
    /\ db = [kind |-> "DatabaseConnector", up |-> TRUE, connected |-> FALSE, tables |-> <<Customers, Orders>>]
    /\ op = "none"
    /\ arg = <<>>
    /\ result = <<>>
    /\ initialized = FALSE
    /\ collection = <<>>
    /\ store_calls = <<>>
    /\ threads = [t \in GetterThreads |-> [stack |-> <<>>]]
    /\ globals = [instance    |-> [g \in Getters |-> NoInstance],
                  constructed |-> [g \in Getters |-> 0],
                  returned    |-> [g \in Getters |-> {}]]
    /\ cache = <<>>
    /\ timestamps = <<>>
    /\ clock = 0
    /\ last_set = <<>>

\* thread t calls a getter
EnterGetter(t) ==
    /\ threads[t].stack = <<>>
    /\ \E getter \in Getters :
        threads' = [threads EXCEPT ![t].stack = <<[getter |-> getter, pc |-> "check"]>>]
    /\ UNCHANGED <<use_mock, openai, db, op, arg, result, engine, globals, cache, timestamps, clock, last_set>>

\* if _x is None
CheckInstance(t) ==
    /\ At(t, "check")
    /\ threads' = [threads EXCEPT ![t].stack =
                      Goto(t, IF globals.instance[Top(t).getter] = NoInstance
                              THEN AfterCheck(Top(t).getter) ELSE "return")]
    /\ UNCHANGED <<use_mock, openai, db, op, arg, result, engine, globals, cache, timestamps, clock, last_set>>

\* the nested call get_db_connector() of RAGEngine.__init__ and of
\* get_sql_generator
CallDb(t) ==
    /\ At(t, "call_db")
    /\ threads' = [threads EXCEPT ![t].stack =
                      Goto(t, AfterCallDb(Top(t).getter))
                      \o <<[getter |-> "get_db_connector", pc |-> "check"]>>]
    /\ UNCHANGED <<use_mock, openai, db, op, arg, result, engine, globals, cache, timestamps, clock, last_set>>

\* the nested call get_openai_client() of get_sql_generator
CallOpenai(t) ==
    /\ At(t, "call_openai")
    /\ threads' = [threads EXCEPT ![t].stack =
                      Goto(t, "assign") \o <<[getter |-> "get_openai_client", pc |-> "check"]>>]
    /\ UNCHANGED <<use_mock, openai, db, op, arg, result, engine, globals, cache, timestamps, clock, last_set>>

\* _x = X(): the object is complete and is stored in the module variable
AssignInstance(t) ==
    /\ At(t, "assign")
    /\ LET getter == Top(t).getter
           made == globals.constructed[getter] + 1
       IN  globals' = [globals EXCEPT !.constructed[getter] = made, !.instance[getter] = made]
    /\ threads' = [threads EXCEPT ![t].stack = Goto(t, "return")]
    /\ UNCHANGED <<use_mock, openai, db, op, arg, result, engine, cache, timestamps, clock, last_set>>

\* return _x: the caller receives what the module variable holds now
ReturnInstance(t) ==
    /\ At(t, "return")
    /\ LET getter == Top(t).getter
       IN  globals' = [globals EXCEPT !.returned[getter] = @ \cup {globals.instance[getter]}]
    /\ threads' = [threads EXCEPT ![t].stack = SubSeq(threads[t].stack, 1, Len(threads[t].stack) - 1)]
    /\ UNCHANGED <<use_mock, openai, db, op, arg, result, engine, cache, timestamps, clock, last_set>>

NextGetters ==
    \E t \in GetterThreads :
        \/ EnterGetter(t)
        \/ CheckInstance(t)
        \/ CallDb(t)
        \/ CallOpenai(t)
        \/ AssignInstance(t)
        \/ ReturnInstance(t)

SpecGetters == InitGetters /\ [][NextGetters]_vars

---------------------------------------------------------------------------
(* SchemaCache: the in-memory cache of utils.py *)

\* the ttl_seconds the cache is constructed with
TtlSeconds == 2

\* the last second the clock reaches
MaxClock == 4

\* the keys and the values the callers use
CacheKeys == {"schema", "tables"}

CacheValues == {"schema A", "schema B"}

\* d[key] = value on a dict
DictSet(d, key, value) == [k \in DOMAIN d \cup {key} |-> IF k = key THEN value ELSE d[k]]

\* del d[key]
DictDel(d, key) == [k \in DOMAIN d \ {key} |-> d[k]]

\* a variant of get that serves an entry whose age equals the ttl
SchemaCacheGetInclusive(c, ts, key, now) ==
    IF key \in DOMAIN c
    THEN IF now - ts[key] <= TtlSeconds
         THEN [value |-> c[key], cache |-> c, timestamps |-> ts]
         ELSE [value |-> "None", cache |-> DictDel(c, key), timestamps |-> DictDel(ts, key)]
    ELSE [value |-> "None", cache |-> c, timestamps |-> ts]

\* SchemaCache.get(key) at time now: the value returned and the two maps
\* afterwards
SchemaCacheGet(c, ts, key, now) ==
    IF key \in DOMAIN c
    THEN IF now - ts[key] < TtlSeconds
         THEN [value |-> c[key], cache |-> c, timestamps |-> ts]
         ELSE [value |-> "None", cache |-> DictDel(c, key), timestamps |-> DictDel(ts, key)]
    ELSE [value |-> "None", cache |-> c, timestamps |-> ts]

InitCache ==
    /\ use_mock = TRUE
    /\ openai = "OpenAIClient"
    /\ db = [kind |-> "DatabaseConnector", up |-> TRUE, connected |-> FALSE, tables |-> <<Customers, Orders>>]
    /\ op = "none"
    /\ arg = <<>>
    /\ result = <<>>
    /\ initialized = FALSE
    /\ collection = <<>>
    /\ store_calls = <<>>
    /\ threads = <<>>
    /\ globals = <<>>
    /\ cache = <<>>
    /\ timestamps = <<>>
    /\ clock = 0
    /\ last_set = [k \in CacheKeys |-> [live |-> FALSE]]

\* a caller invokes set(key, value)
CacheSet ==
    /\ \E key \in CacheKeys, value \in CacheValues :
        /\ op' = "set"
        /\ arg' = [key |-> key, value |-> value, at |-> clock]
        /\ cache' = DictSet(cache, key, value)
        /\ timestamps' = DictSet(timestamps, key, clock)
        /\ last_set' = [last_set EXCEPT ![key] = [live |-> TRUE, value |-> value, at |-> clock]]
    /\ result' = "None"
    /\ UNCHANGED <<use_mock, openai, db, engine, threads, globals, clock>>

\* a caller invokes get(key)
CacheGet ==
    /\ \E key \in CacheKeys :
        LET got == SchemaCacheGet(cache, timestamps, key, clock)
        IN  /\ op' = "get"
            /\ arg' = [key |-> key, at |-> clock, found |-> key \in DOMAIN cache]
            /\ result' = got.value
            /\ cache' = got.cache
            /\ timestamps' = got.timestamps
    /\ UNCHANGED <<use_mock, openai, db, engine, threads, globals, clock, last_set>>

\* a caller invokes clear()
CacheClear ==
    /\ op' = "clear"
    /\ arg' = [at |-> clock]
    /\ result' = "None"
    /\ cache' = <<>>
    /\ timestamps' = <<>>
    /\ last_set' = [k \in CacheKeys |-> [live |-> FALSE]]
    /\ UNCHANGED <<use_mock, openai, db, engine, threads, globals, clock>>

\* a second passes
Tick ==
    /\ clock < MaxClock
    /\ clock' = clock + 1
    /\ UNCHANGED <<use_mock, openai, db, op, arg, result, engine, threads, globals,
                   cache, timestamps, last_set>>

NextCache == CacheSet \/ CacheGet \/ CacheClear \/ Tick

SpecCache == InitCache /\ [][NextCache]_vars

---------------------------------------------------------------------------
(* Properties *)

\* the issue texts of validate_sql, spelled out
OnlySelectIssue == "Only SELECT queries are allowed"

ForbiddenIssue == <<
    "Forbidden keyword detected: DROP",
    "Forbidden keyword detected: DELETE",
    "Forbidden keyword detected: TRUNCATE",
    "Forbidden keyword detected: ALTER",
    "Forbidden keyword detected: UPDATE",
    "Forbidden keyword detected: INSERT",
    "Forbidden keyword detected: GRANT",
    "Forbidden keyword detected: REVOKE",
    "Forbidden keyword detected: CREATE" >>

MultiStatementIssue == "Multiple SQL statements detected"

SystemTableIssue == "System table access detected"

\* the forbidden keywords in lower case
LowerKeywords == [k \in 1..Len(FORBIDDEN_KEYWORDS) |-> Lower(FORBIDDEN_KEYWORDS[k])]

\* the lower-cased trimmed text
Lowered(sql) == Lower(Strip(sql))

\* the lower-cased trimmed text low contains the k-th forbidden keyword
HasKeywordIn(low, k) == Contains(low, LowerKeywords[k])

\* the trimmed text contains the k-th forbidden keyword in some letter case
HasKeyword(sql, k) == HasKeywordIn(Lowered(sql), k)

\* the text contains the k-th system-schema name in some letter case
HasSystemName(sql, k) == Contains(Upper(sql), Upper(SYSTEM_TABLE_PATTERNS[k]))

\* the trimmed text starts with SELECT in some letter case
StartsWithSelect(sql) == StartsWith(Lower(Strip(sql)), <<"s", "e", "l", "e", "c", "t">>)

\* a ';' occurs before the final character of the trimmed text
HasInnerSemicolon(sql) ==
    LET trimmed == Strip(sql)
    IN  \E i \in 1..(Len(trimmed) - 1) : trimmed[i] = ";"

\* the number of ';' in a text
SemicolonCount(text) == Cardinality({i \in 1..Len(text) : text[i] = ";"})

\* 1 if the condition holds, else 0
Ind(b) == IF b THEN 1 ELSE 0

KeywordCount(sql) ==
    LET low == Lowered(sql)
    IN  Cardinality({k \in 1..Len(FORBIDDEN_KEYWORDS) : HasKeywordIn(low, k)})

SystemNameCount(sql) ==
    LET up == Upper(sql)
    IN  Cardinality({k \in 1..Len(SYSTEM_TABLE_PATTERNS) : Contains(up, Upper(SYSTEM_TABLE_PATTERNS[k]))})

DropTableSql == <<"D", "R", "O", "P", " ", "T", "A", "B", "L", "E", " ", "c", "u", "s", "t", "o", "m", "e", "r", "s", ";">>

CountCustomersSql == <<"S", "E", "L", "E", "C", "T", " ", "C", "O", "U", "N", "T", "(", "*", ")", " ", "F", "R", "O", "M", " ", "c", "u", "s", "t", "o", "m", "e", "r", "s", ";">>

\* C1: generate_and_execute attaches an execution result only to a query
\* for which validate_sql returned is_safe = TRUE with no issue, for the very
\* SQL string that is returned.
C1_ExecutionOnlyIfSafe ==
    (op = "generate_and_execute" /\ "execution_result" \in DOMAIN result) =>
        /\ "validation" \in DOMAIN result
        /\ result.validation.is_safe = TRUE
        /\ result.validation.issues = <<>>
        /\ SelectIssues(Upper(Strip(result.sql))) = <<>>
        /\ \A k \in 1..Len(FORBIDDEN_KEYWORDS) : ~HasKeyword(result.sql, k)
        /\ ~HasInnerSemicolon(result.sql)
        /\ \A k \in 1..Len(SYSTEM_TABLE_PATTERNS) : ~HasSystemName(result.sql, k)

\* C1 witness: a model reply was validated as safe and executed
C1_Witness ==
    /\ op = "generate_and_execute"
    /\ ~use_mock
    /\ "execution_result" \in DOMAIN result
    /\ result.validation.is_safe

\* C2: when the backend reports success with non-empty SQL, generate_sql
\* returns exactly success, sql and validation, with success equal to
\* validation.is_safe and sql as the backend produced it; "DROP TABLE
\* customers;" is returned with success FALSE and its two issues.
C2_SuccessIsSafety ==
    (op = "generate_sql" /\ ~DbGetSchemaForPrompt(db).raised) =>
        LET ai_response == AiResponse(use_mock, openai, arg.question, arg.reply)
        IN  (ai_response.success /\ ai_response.sql # <<>>) =>
                /\ DOMAIN result = {"success", "sql", "validation"}
                /\ result.success = result.validation.is_safe
                /\ result.sql = ai_response.sql
                /\ (arg.reply.ok /\ Len(arg.reply.content) > 0 /\ SemicolonCount(arg.reply.content) = 0
                        /\ ~Contains(arg.reply.content, Fence)
                    => \E i, j \in 1..Len(arg.reply.content) :
                           result.sql = SubSeq(arg.reply.content, i, j))
                /\ (arg.reply.ok /\ arg.reply.content = DropTableSql =>
                        /\ result.success = FALSE
                        /\ result.sql = DropTableSql
                        /\ result.validation.issues =
                               <<"Only SELECT queries are allowed", "Forbidden keyword detected: DROP">>)

\* C2 witness: the model answered "DROP TABLE customers;"
C2_Witness ==
    /\ op = "generate_sql"
    /\ "sql" \in DOMAIN result
    /\ result.sql = DropTableSql
    /\ result.success = FALSE

\* C3: a query whose trimmed text contains a forbidden keyword, in any
\* letter case and anywhere, is unsafe and has that keyword's issue.
C3_ForbiddenKeywordsUnsafe ==
    op = "validate_sql" =>
        LET low == Lowered(arg.sql_query)
        IN  \A k \in 1..Len(FORBIDDEN_KEYWORDS) :
            HasKeywordIn(low, k) =>
                /\ result.is_safe = FALSE
                /\ InSeq(ForbiddenIssue[k], result.issues)

\* C3 witness: a SELECT over the identifier last_updated is flagged for UPDATE
C3_Witness ==
    /\ op = "validate_sql"
    /\ StartsWithSelect(arg.sql_query)
    /\ Contains(arg.sql_query, <<"l", "a", "s", "t", "_", "u", "p", "d", "a", "t", "e", "d">>)
    /\ InSeq("Forbidden keyword detected: UPDATE", result.issues)
    /\ ~result.is_safe

\* the precondition of C4
CleanSelect(sql) ==
    /\ StartsWithSelect(sql)
    /\ KeywordCount(sql) = 0
    /\ SystemNameCount(sql) = 0
    /\ ~HasInnerSemicolon(sql)

\* C4: a SELECT with no forbidden keyword, no system-schema name and no ';'
\* before its final character is safe, with no issue and risk score 0,
\* whatever the table check reports.
C4_CleanSelectSafe ==
    (op = "validate_sql" /\ CleanSelect(arg.sql_query)) =>
        /\ result.is_safe = TRUE
        /\ result.issues = <<>>
        /\ result.risk_score = 0

\* C4 witness: a clean SELECT ending in a single ';' that draws a warning
C4_Witness ==
    /\ op = "validate_sql"
    /\ CleanSelect(arg.sql_query)
    /\ EndsWith(Strip(arg.sql_query), <<";">>)
    /\ result.warnings = <<"No known table detected in query">>
    /\ result.is_safe

\* C5: is_safe is exactly "issues is empty", is_valid is TRUE, and the
\* warnings do not enter is_safe.
C5_SafeIffNoIssues ==
    op = "validate_sql" =>
        /\ result.is_safe = (result.issues = <<>>)
        /\ result.is_valid = TRUE
        /\ (result.issues = <<>> /\ result.warnings # <<>> => result.is_safe)

\* C5 witness: a safe result that carries a warning
C5_Witness ==
    /\ op = "validate_sql"
    /\ result.warnings # <<>>
    /\ result.issues = <<>>
    /\ result.is_safe

\* n copies of x
Repeat(x, n) == [i \in 1..n |-> x]

\* the issues of the keywords present, in list order
RECURSIVE KeywordIssueTexts(_, _)
KeywordIssueTexts(low, k) ==
    IF k > Len(ForbiddenIssue) THEN <<>>
    ELSE (IF HasKeywordIn(low, k) THEN <<ForbiddenIssue[k]>> ELSE <<>>) \o KeywordIssueTexts(low, k + 1)

\* C6 as stated: the risk score counts system-table access once (+40, one
\* issue) however many system-schema names occur.
C6_RiskScoreAsStated ==
    op = "validate_sql" =>
        /\ result.risk_score =
               50 * Ind(~StartsWithSelect(arg.sql_query))
               + 40 * KeywordCount(arg.sql_query)
               + 30 * Ind(HasInnerSemicolon(arg.sql_query))
               + 40 * Ind(SystemNameCount(arg.sql_query) > 0)
        /\ result.issues =
               Repeat(OnlySelectIssue, Ind(~StartsWithSelect(arg.sql_query)))
               \o KeywordIssueTexts(Lowered(arg.sql_query), 1)
               \o Repeat(MultiStatementIssue, Ind(HasInnerSemicolon(arg.sql_query)))
               \o Repeat(SystemTableIssue, Ind(SystemNameCount(arg.sql_query) > 0))

\* C6 amended: the rules do not short-circuit; the risk score is 50 for a
\* text that does not start with SELECT, plus 40 per forbidden keyword
\* present, plus 30 for a ';' before the final character, plus 40 per
\* system-schema name present; the issues are one per fired rule in that
\* order, "System table access detected" once per system-schema name present.
C6_RiskScore ==
    op = "validate_sql" =>
        /\ result.risk_score =
               50 * Ind(~StartsWithSelect(arg.sql_query))
               + 40 * KeywordCount(arg.sql_query)
               + 30 * Ind(HasInnerSemicolon(arg.sql_query))
               + 40 * SystemNameCount(arg.sql_query)
        /\ result.issues =
               Repeat(OnlySelectIssue, Ind(~StartsWithSelect(arg.sql_query)))
               \o KeywordIssueTexts(Lowered(arg.sql_query), 1)
               \o Repeat(MultiStatementIssue, Ind(HasInnerSemicolon(arg.sql_query)))
               \o Repeat(SystemTableIssue, SystemNameCount(arg.sql_query))

\* C6 witness: a query naming two system schemas has two such issues
C6_Witness ==
    /\ op = "validate_sql"
    /\ SystemNameCount(arg.sql_query) = 2
    /\ result.risk_score >= 80
    /\ Len(SelectSeq(result.issues, LAMBDA x : x = SystemTableIssue)) = 2

\* the database can list its tables
CanListTables(d) == d.up

\* a table of the database is named in the text, in some letter case
NamesKnownTable(sql, d) == \E i \in 1..Len(d.tables) : Contains(Upper(sql), Upper(d.tables[i]))

\* C7: the table check only warns: "No known table detected in query" when
\* the database can list its tables and none is named, "Table validation
\* skipped" only when the list cannot be obtained, no warning when a known
\* table is named; issues, risk score and is_safe are as without the check.
C7_TableCheckWarnings ==
    op = "validate_sql" =>
        /\ (CanListTables(db) /\ ~NamesKnownTable(arg.sql_query, db)
                => InSeq("No known table detected in query", result.warnings))
        /\ (InSeq("Table validation skipped", result.warnings) => ~CanListTables(db))
        /\ (CanListTables(db) /\ NamesKnownTable(arg.sql_query, db) => result.warnings = <<>>)
        /\ result.is_safe = (result.issues = <<>>)
        /\ result.risk_score =
               50 * Ind(~StartsWithSelect(arg.sql_query))
               + 40 * KeywordCount(arg.sql_query)
               + 30 * Ind(HasInnerSemicolon(arg.sql_query))
               + 40 * SystemNameCount(arg.sql_query)

\* the first rule of the deterministic backend whose keywords all occur
FirstRule(q) ==
    LET full == {k \in 1..Len(MockPatterns) :
                    \A i \in 1..Len(MockPatterns[k].keywords) : Find(q, MockPatterns[k].keywords[i]) > 0}
    IN  IF full = {} THEN 0 ELSE CHOOSE k \in full : \A j \in full : k <= j

\* C8: the deterministic backend returns the template of the first rule all
\* of whose keywords occur in the lower-cased question, "SELECT 1;" when no
\* rule matches, and always success = TRUE; "customer" with "how many"
\* gives "SELECT COUNT(*) FROM customers;".
C8_FirstRuleWins ==
    op = "_mock_generate_sql" =>
        LET q == Lower(arg.question)
        IN  /\ result.success = TRUE
            /\ DOMAIN result = {"success", "sql"}
            /\ (FirstRule(q) = 0 => result.sql = <<"S", "E", "L", "E", "C", "T", " ", "1", ";">>)
            /\ (FirstRule(q) # 0 => result.sql = MockPatterns[FirstRule(q)].sql)
            /\ (Contains(q, <<"c", "u", "s", "t", "o", "m", "e", "r">>)
                    /\ Contains(q, <<"h", "o", "w", " ", "m", "a", "n", "y">>)
                => result.sql = CountCustomersSql)

\* C8 witness: a question about customers, "how many" and orders
C8_Witness ==
    /\ op = "_mock_generate_sql"
    /\ Contains(Lower(arg.question), <<"c", "u", "s", "t", "o", "m", "e", "r">>)
    /\ Contains(Lower(arg.question), <<"h", "o", "w", " ", "m", "a", "n", "y">>)
    /\ Contains(Lower(arg.question), <<"o", "r", "d", "e", "r">>)
    /\ result.sql = CountCustomersSql

\* C9: with the deterministic backend and a schema lookup that does not
\* raise, generate_sql of a non-empty question returns success = TRUE, an
\* sql and a validation with is_safe = TRUE.
C9_MockAlwaysSafe ==
    (op = "generate_sql" /\ use_mock /\ arg.question # <<>> /\ ~DbGetSchemaForPrompt(db).raised) =>
        /\ {"success", "sql", "validation"} \subseteq DOMAIN result
        /\ result.success = TRUE
        /\ result.validation.is_safe = TRUE
        /\ result.validation.issues = <<>>

\* C9 witness: a question no rule matches is answered with a safe "SELECT 1;"
C9_Witness ==
    /\ op = "generate_sql"
    /\ use_mock
    /\ arg.question # <<>>
    /\ result.success = TRUE
    /\ result.sql = <<"S", "E", "L", "E", "C", "T", " ", "1", ";">>

\* C10: what either extractor returns contains no fence marker, at most one
\* ';' and that one as its last character, so it cannot draw "Multiple SQL
\* statements detected".
C10_ExtractedSingleStatement ==
    op \in {"extract_sql", "_extract_sql"} =>
        /\ ~Contains(result, Fence)
        /\ SemicolonCount(result) <= 1
        /\ (SemicolonCount(result) = 1 => result[Len(result)] = ";")
        /\ ~HasInnerSemicolon(result)

\* the generation result of the call recorded in arg
Generation == GenerateSql(use_mock, openai, db, arg.question, arg.reply)

\* C11: on the model-backed path no exception escapes generate_sql: without
\* a model client the result is {success: FALSE, error: "LLM client not
\* initialized"}; an exception raised by the call of the client, or inside
\* its completion request, comes back as {success: FALSE, error: message};
\* and such a result has only the keys success and error.
C11_GenerationFailureIsReported ==
    (op = "generate_sql" /\ ~use_mock /\ ~DbGetSchemaForPrompt(db).raised) =>
        /\ (openai = "None" =>
                result = [success |-> FALSE, error |-> "LLM client not initialized"])
        /\ (openai = "OpenAIClient" =>
                result = [success |-> FALSE,
                          error |-> "OpenAIClient.generate_sql() got an unexpected keyword argument 'question'"])
        /\ (openai = "groq_llm_client" /\ ~arg.reply.ok =>
                result = [success |-> FALSE, error |-> arg.reply.error])
        /\ (~result.success /\ "validation" \notin DOMAIN result =>
                DOMAIN result = {"success", "error"})

\* C11 witness: the completion request raised a connection error
C11_Witness ==
    /\ op = "generate_sql"
    /\ ~use_mock
    /\ openai = "groq_llm_client"
    /\ ~arg.reply.ok
    /\ result = [success |-> FALSE, error |-> "Connection error."]

\* C12: on the model-backed path with a model client whose completion
\* succeeds with non-empty SQL text, generate_sql returns success, sql and
\* validation with success = validation.is_safe, never a generation error.
C12_ModelReplyValidated ==
    (op = "generate_sql" /\ ~use_mock /\ openai # "None" /\ ~DbGetSchemaForPrompt(db).raised
        /\ arg.reply.ok
        /\ ExtractSql(Strip(arg.reply.content)) # <<>>
        /\ OpenAIExtractSql(arg.reply.content) # <<>>) =>
        /\ DOMAIN result = {"success", "sql", "validation"}
        /\ result.success = result.validation.is_safe

\* C13: when generate_sql reports success = FALSE, generate_and_execute
\* returns that very result: the same keys and values, with no
\* execution_result, execution_time or explanation.
C13_FailureReturnedUntouched ==
    (op = "generate_and_execute" /\ ~Generation.success) =>
        /\ result = Generation
        /\ DOMAIN result \cap {"execution_result", "execution_time", "explanation"} = {}

\* C13 witness: an unsafe model reply comes back with its sql and validation
C13_Witness ==
    /\ op = "generate_and_execute"
    /\ ~result.success
    /\ DOMAIN result = {"success", "sql", "validation"}
    /\ result.sql = DropTableSql
    /\ ~result.validation.is_safe

\* C14: when the generated SQL passes validation, generate_and_execute
\* returns success = TRUE with the sql, its validation, an execution_result
\* and an execution_time, and an explanation exactly when auto_explain is
\* TRUE; "How many Customer" on the deterministic backend is such a question.
C14_SafeQueryExecuted ==
    (op = "generate_and_execute" /\ "validation" \in DOMAIN Generation
        /\ Generation.validation.is_safe) =>
        /\ result.success = TRUE
        /\ {"sql", "validation", "execution_result", "execution_time"} \subseteq DOMAIN result
        /\ result.sql = Generation.sql
        /\ result.validation = Generation.validation
        /\ result.execution_result = [success |-> TRUE, row_count |-> 1, data |-> << <<"Example">> >>]
        /\ result.execution_time \in ExecutionTimes
        /\ ("explanation" \in DOMAIN result) = arg.auto_explain
        /\ (use_mock /\ arg.question = <<"H", "o", "w", " ", "m", "a", "n", "y", " ", "C", "u", "s", "t", "o", "m", "e", "r">>
                => result.sql = CountCustomersSql)

\* C14 witness: the customer count was executed without an explanation
C14_Witness ==
    /\ op = "generate_and_execute"
    /\ use_mock
    /\ ~arg.auto_explain
    /\ result.success
    /\ result.sql = CountCustomersSql
    /\ "execution_result" \in DOMAIN result
    /\ "explanation" \notin DOMAIN result

\* the calls of one kind among the calls made on the vector collection
CallsOf(calls, kind) == SelectSeq(calls, LAMBDA c : c.call = kind)

\* the schema the database presents to the engine
CurrentSchema == GetFullSchema(db)

\* C15: index_schema(force_reindex=False) called twice in a row on an
\* unchanged schema makes exactly one batch add: when the first call succeeds,
\* the second finds the hash marker, adds and deletes nothing, leaves the
\* collection as it is and returns success = TRUE; the first call made the one
\* add, with the marker in it, unless it found the marker itself.
C15_SecondIndexIsNoOp ==
    (op = "index_schema" /\ "first" \in DOMAIN arg /\ ~arg.first.force_reindex
        /\ arg.first.result.success) =>
        /\ result.success = TRUE
        /\ result.error = "None"
        /\ CallsOf(store_calls, "add") = <<>>
        /\ CallsOf(store_calls, "delete") = <<>>
        /\ store_calls = <<[call |-> "get", ids |-> <<HashMarkerId(CurrentSchema)>>]>>
        /\ collection = arg.before
        /\ HasId(collection, HashMarkerId(CurrentSchema))
        /\ Len(CallsOf(arg.first.calls, "add")) + Len(CallsOf(store_calls, "add")) <= 1
        /\ ("message" \notin DOMAIN arg.first.result =>
                /\ Len(CallsOf(arg.first.calls, "add")) = 1
                /\ InSeq(HashMarkerId(CurrentSchema), CallsOf(arg.first.calls, "add")[1].ids))

\* C15 witness: the first call added the documents of two tables, the second
\* call skipped
C15_Witness ==
    /\ op = "index_schema"
    /\ "first" \in DOMAIN arg
    /\ ~arg.first.force_reindex
    /\ arg.first.result.success
    /\ arg.first.result.documents_added > 1
    /\ "message" \in DOMAIN result
    /\ result.documents_added = 0

\* the documents derived from the current schema by the call recorded in arg
EmittedDocuments == IndexDocuments(CurrentSchema, arg.sampled)

\* C16: index_schema(force_reindex=True) deletes every stored document before
\* it adds anything; after a successful forced reindex the collection holds
\* exactly the documents derived from the current schema, and no document
\* that was stored before and is not emitted again.
C16_ForcedReindexReplaces ==
    (op = "index_schema" /\ arg.force_reindex /\ result.success) =>
        /\ collection = EmittedDocuments
        /\ \A i \in 1..Len(arg.before) :
               HasId(collection, arg.before[i].id) => HasId(EmittedDocuments, arg.before[i].id)
        /\ (arg.before # <<>> =>
                \E i, j \in 1..Len(store_calls) :
                    /\ i < j
                    /\ store_calls[i] = [call |-> "delete", ids |-> IdsOf(arg.before)]
                    /\ store_calls[j].call = "add")

\* the number of entries of a sequence that satisfy a test
CountOf(seq, Test(_)) == Len(SelectSeq(seq, Test))

\* the number of columns of a schema
RECURSIVE ColumnTotal(_)
ColumnTotal(schema) ==
    IF schema = <<>> THEN 0 ELSE Len(schema[1].columns) + ColumnTotal(Tail(schema))

\* C17: a successful index_schema that did not skip makes a single
\* collection.add call whose ids are pairwise distinct and whose documents are
\* one per table, one per column, one sample document for each table whose
\* sample lookup returned rows and none for the others, and one hash marker;
\* documents_added is their number and tables_indexed the number of tables.
C17_IndexedDocuments ==
    (op = "index_schema" /\ result.success /\ "message" \notin DOMAIN result) =>
        LET adds == CallsOf(store_calls, "add")
            metas == adds[1].metadatas
            tables == {CurrentSchema[i].table_name : i \in 1..Len(CurrentSchema)}
            samples == CountOf(metas, LAMBDA m : m.type = "sample")
        IN  /\ Len(adds) = 1
            /\ \A i, j \in 1..Len(adds[1].ids) : i # j => adds[1].ids[i] # adds[1].ids[j]
            /\ \A t \in tables :
                /\ CountOf(metas, LAMBDA m : m.type = "table" /\ m.table_name = t) = 1
                /\ CountOf(metas, LAMBDA m : m.type = "column" /\ m.table_name = t)
                       = Len(DbColumns(t))
                /\ CountOf(metas, LAMBDA m : m.type = "sample" /\ m.table_name = t)
                       = Ind(t \in arg.sampled)
            /\ CountOf(metas, LAMBDA m : m.type = "table") = Cardinality(tables)
            /\ CountOf(metas, LAMBDA m : m.type = "column") = ColumnTotal(CurrentSchema)
            /\ samples <= Cardinality(tables)
            /\ CountOf(metas, LAMBDA m : m.type = "hash") = 1
            /\ result.documents_added = Cardinality(tables) + ColumnTotal(CurrentSchema) + samples + 1
            /\ result.documents_added = Len(adds[1].ids)
            /\ result.tables_indexed = Cardinality(tables)

\* C17 witness: three tables with eight columns indexed, the sample lookup of
\* two of the tables empty
C17_Witness ==
    /\ op = "index_schema"
    /\ result.success
    /\ result.tables_indexed = 3
    /\ Cardinality(arg.sampled) = 1
    /\ result.documents_added = 13

\* the vector store raised during the call recorded in arg
StoreRaised ==
    \/ arg.fault = "initialize" /\ ~initialized
    \/ arg.fault = "get" /\ op = "index_schema" /\ ~arg.force_reindex /\ store_calls # <<>>
    \/ arg.fault = "clear_get" /\ op = "index_schema" /\ arg.force_reindex /\ store_calls # <<>>
    \/ arg.fault = "delete" /\ CallsOf(store_calls, "delete") # <<>>
    \/ arg.fault = "add" /\ CallsOf(store_calls, "add") # <<>>
    \/ arg.fault = "query" /\ CallsOf(store_calls, "query") # <<>>

\* C18: no exception of the vector store or the database escapes: when the
\* vector store raises during index_schema or retrieve_context, the call
\* returns success = FALSE with an error that is not None, and
\* get_relevant_schema returns a string in every case.
C18_FailuresAreReported ==
    /\ (op \in {"index_schema", "retrieve_context"} /\ StoreRaised =>
            /\ result.success = FALSE
            /\ result.error # "None")
    /\ (op = "get_relevant_schema" => result \in STRING)

\* the matches of the retrieval recorded in arg
Matches(n_results) ==
    SubSeq(Ranked(collection, arg.ranking), 1, IF n_results < Len(collection) THEN n_results ELSE Len(collection))

\* the positions of the table and column documents among the matches
KeptMatches(n_results) ==
    SelectSeq([i \in 1..Len(Matches(n_results)) |-> i],
              LAMBDA i : Matches(n_results)[i].metadata.type \in {"table", "column"})

\* what retrieve_context returns: as tables the table names of the matched
\* table and column documents, each once; as columns one entry per matched
\* column document, in match order, with relevance 1 - distance and a table
\* that is in tables; as context the texts of the matched table and column
\* documents in match order, the first 10 of them only
RetrievedTableAndColumnContext ==
    (op = "retrieve_context" /\ result.success) =>
        LET matches == Matches(arg.n_results)
            kept == KeptMatches(arg.n_results)
            cols == SelectSeq(kept, LAMBDA i : matches[i].metadata.type = "column")
            shown == IF Len(kept) < ContextLimit THEN Len(kept) ELSE ContextLimit
        IN  /\ {result.tables[i] : i \in 1..Len(result.tables)}
                   = {matches[kept[k]].metadata.table_name : k \in 1..Len(kept)}
            /\ \A i, j \in 1..Len(result.tables) : i # j => result.tables[i] # result.tables[j]
            /\ Len(result.columns) = Len(cols)
            /\ \A k \in 1..Len(cols) :
                /\ result.columns[k].table = matches[cols[k]].metadata.table_name
                /\ result.columns[k].column = matches[cols[k]].metadata.column_name
                /\ result.columns[k].type = matches[cols[k]].metadata.column_type
                /\ result.columns[k].relevance = 1 - (cols[k] - 1)
                /\ InSeq(result.columns[k].table, result.tables)
            /\ result.context =
                   "Retrieved Context:\n----------------------------------------\nRelevant tables: "
                   \o Join(", ", [i \in 1..Len(result.tables) |-> Str(result.tables[i])])
                   \o "\n\nDetails:"
                   \o Join("", [k \in 1..shown |-> "\n- " \o matches[kept[k]].document])

\* C19: a successful retrieve_context returns the matched documents
\* partitioned by kind: tables holds the table names of the matched table and
\* column documents, columns has one entry per matched column document in
\* match order with relevance 1 - distance and a table that is in tables, and
\* the context block concatenates the texts of the matched documents, the
\* first 10 only.
C19_RetrievedContext ==
    (op = "retrieve_context" /\ result.success) =>
        LET matches == Matches(arg.n_results)
            kept == KeptMatches(arg.n_results)
            cols == SelectSeq(kept, LAMBDA i : matches[i].metadata.type = "column")
            shown == IF Len(matches) < ContextLimit THEN Len(matches) ELSE ContextLimit
        IN  /\ {result.tables[i] : i \in 1..Len(result.tables)}
                   = {matches[kept[k]].metadata.table_name : k \in 1..Len(kept)}
            /\ Len(result.columns) = Len(cols)
            /\ \A k \in 1..Len(cols) :
                /\ result.columns[k].table = matches[cols[k]].metadata.table_name
                /\ result.columns[k].relevance = 1 - (cols[k] - 1)
                /\ InSeq(result.columns[k].table, result.tables)
            /\ result.context =
                   "Retrieved Context:\n----------------------------------------\nRelevant tables: "
                   \o Join(", ", [i \in 1..Len(result.tables) |-> Str(result.tables[i])])
                   \o "\n\nDetails:"
                   \o Join("", [k \in 1..shown |-> "\n- " \o matches[k].document])

\* the retrieval get_relevant_schema made
Retrieved == RetrieveContext(initialized, collection, 20, arg.ranking, arg.fault, arg.order)

\* C20: get_relevant_schema returns the full-schema text of the database
\* when retrieve_context fails or yields no table, as it does on an empty
\* collection, and it never returns the empty string.
C20_FallbackToFullSchema ==
    op = "get_relevant_schema" =>
        /\ (~Retrieved.success \/ Retrieved.tables = <<>> => result = GetSchemaForPrompt(db))
        /\ (collection = <<>> /\ Retrieved.success => Retrieved.tables = <<>>)
        /\ (collection = <<>> => result = GetSchemaForPrompt(db))
        /\ result # ""
        /\ GetSchemaForPrompt(db) # ""

\* C20 witness: on an empty collection the schema of two tables is returned
C20_Witness ==
    /\ op = "get_relevant_schema"
    /\ collection = <<>>
    /\ initialized
    /\ arg.fault = "none"
    /\ db.up
    /\ result = GetSchemaForPrompt(db)
    /\ result # "No tables found."

\* a sequence without its repeated entries, first occurrences kept
RECURSIVE Distinct(_)
Distinct(seq) ==
    IF seq = <<>> THEN <<>>
    ELSE <<seq[1]>> \o Distinct(SelectSeq(Tail(seq), LAMBDA x : x # seq[1]))

\* the tables of the matched table and column documents of the retrieval
\* recorded in arg, in the order in which the matches first name them
EncounterOrder ==
    LET matches == Matches(RelevantCandidates)
        kept == KeptMatches(RelevantCandidates)
    IN  Distinct([k \in 1..Len(kept) |-> matches[kept[k]].metadata.table_name])

\* C21: when the retrieval yields tables, get_relevant_schema lists the first
\* max_tables distinct tables in the order in which the matches first name
\* them, each once.
C21_RelevantTablesInMatchOrder ==
    (op = "get_relevant_schema" /\ Retrieved.success /\ Retrieved.tables # <<>>) =>
        LET first == EncounterOrder
            listed == SubSeq(first, 1, IF arg.max_tables < Len(first) THEN arg.max_tables ELSE Len(first))
        IN  result = "Relevant Database Schema:\n========================================"
                     \o RelevantLines(db, listed)

\* C22: a schema lookup on a connector that is not connected makes one
\* connect() attempt; when that attempt fails, get_full_schema returns the
\* empty schema without raising, get_schema_for_prompt returns
\* "No tables found.", and generate_sql goes on to its result.
C22_DisconnectedSchemaLookup ==
    (op \in {"generate_sql", "generate_and_execute"}
        /\ arg.before.kind = "DatabaseConnector" /\ ~arg.before.connected) =>
        /\ GetFullSchemaConnects(arg.before) = 1
        /\ db.connected = arg.before.up
        /\ (~arg.before.up =>
                /\ GetFullSchema(arg.before) = <<>>
                /\ ~DbGetSchemaForPrompt(arg.before).raised
                /\ GetSchemaForPrompt(arg.before) = "No tables found."
                /\ "success" \in DOMAIN result
                /\ (op = "generate_sql" => result = Generation)
                /\ (use_mock => result.success /\ "sql" \in DOMAIN result))

\* C22 witness: generate_sql on a connector whose one connect() attempt failed
\* returned the SQL of the mock backend
C22_Witness ==
    /\ op = "generate_sql"
    /\ arg.before.kind = "DatabaseConnector"
    /\ ~arg.before.connected
    /\ ~arg.before.up
    /\ ~db.connected
    /\ result.success
    /\ result.sql = CountCustomersSql

\* the calls on the database collaborator of the invocation recorded in arg
InvocationDbCalls == DbCalls(use_mock, openai, arg.before, arg.question, arg.reply)

\* the completion requests of the invocation recorded in arg
InvocationModelRequests == ModelRequests(use_mock, openai, arg.before)

\* C23: each generate_sql or generate_and_execute invocation issues at most
\* one call to the database collaborator, at most one call to the vector
\* store and at most one call to the model API.
C23_OneCallPerCollaborator ==
    op \in {"generate_sql", "generate_and_execute"} =>
        /\ Len(InvocationDbCalls) <= 1
        /\ Len(store_calls) <= 1
        /\ InvocationModelRequests <= 1

\* C23, amended: each invocation issues on the database collaborator the
\* schema lookup and then, exactly when the backend returned SQL to validate,
\* get_tables(): two calls at most, in this order; it makes no call to the
\* vector store; and it sends at most one completion request, none on the
\* mock backend.
C23_CallsPerInvocation ==
    op \in {"generate_sql", "generate_and_execute"} =>
        /\ Len(InvocationDbCalls) \in {1, 2}
        /\ InvocationDbCalls[1] = "get_schema_for_prompt"
        /\ (Len(InvocationDbCalls) = 2 <=>
                \/ "validation" \in DOMAIN result
                \/ "execution_result" \in DOMAIN result)
        /\ (Len(InvocationDbCalls) = 2 => InvocationDbCalls[2] = "get_tables")
        /\ store_calls = <<>>
        /\ InvocationModelRequests \in {0, 1}
        /\ (InvocationModelRequests = 0 => arg.reply = NoReply \/ openai = "OpenAIClient")
        /\ (use_mock => InvocationModelRequests = 0)

\* C23 witness: a model-backed generate_sql looked the schema up, sent one
\* completion request and asked for the tables while validating the reply
C23_Witness ==
    /\ op = "generate_sql"
    /\ InvocationDbCalls = <<"get_schema_for_prompt", "get_tables">>
    /\ InvocationModelRequests = 1
    /\ result.success
    /\ store_calls = <<>>

\* the documents of a collection, as a set
DocSet(coll) == {coll[i] : i \in 1..Len(coll)}

\* the collection one index_schema(force_reindex) call alone leaves, started
\* on the collection the concurrent calls found
SingleCall(force_reindex) ==
    IndexSchema(FALSE, arg.before, db, force_reindex, AllSampled(db), "none").collection

\* both concurrent calls have returned
BothReturned == \A t \in ReindexThreads : threads[t].pc = "done"

\* C24: two index_schema calls running concurrently over one unchanged schema
\* both return success under every interleaving of their check, clear and add
\* steps, and leave the document set that a single call leaves: one document
\* per id, one hash marker of the schema.
C24_ConcurrentReindexBenign ==
    BothReturned =>
        /\ \A t \in ReindexThreads : threads[t].result.success /\ threads[t].result.error = "None"
        /\ \A i, j \in 1..Len(collection) : i # j => collection[i].id # collection[j].id
        /\ \E t \in ReindexThreads : DocSet(collection) = DocSet(SingleCall(threads[t].force_reindex))
        /\ ((\E t \in ReindexThreads : threads[t].force_reindex) =>
                DocSet(collection) = DocSet(SingleCall(TRUE)))
        /\ Len(SelectSeq(collection, LAMBDA doc : doc.id = HashMarkerId(CurrentSchema))) = 1
        /\ (arg.before = <<>> \/ HasId(arg.before, HashMarkerId(CurrentSchema))
               \/ (\E t \in ReindexThreads : threads[t].force_reindex) =>
                Len(SelectSeq(collection, LAMBDA doc : doc.metadata.type = "hash")) = 1)

\* C24 witness: a forced and a non-forced call overlapped on a collection that
\* held another index, and both went through their batch add
C24_Witness ==
    /\ BothReturned
    /\ threads[1].force_reindex
    /\ ~threads[2].force_reindex
    /\ arg.before # <<>>
    /\ "message" \notin DOMAIN threads[1].result
    /\ "message" \notin DOMAIN threads[2].result
    /\ threads[2].result.documents_added > 0


\* a response body that reports a failure in the structured form
StructuredFailure(body) ==
    /\ "success" \in DOMAIN body
    /\ ~body.success
    /\ \/ "error" \in DOMAIN body
       \/ "validation" \in DOMAIN body /\ ~body.validation.is_safe

\* C25: POST /generate-sql with an empty question and POST /explain-sql with
\* an empty sql are answered with HTTP 400 and a detail, and neither the
\* generator nor the model is invoked; every other request is answered with
\* HTTP 200 and a body carrying success, and each failure (generation error,
\* unsafe SQL, malformed explanation JSON with the message "Failed to parse
\* explanation response", model error with its message) is such a body with
\* success false, never an exception leaving the handler
C25_RouteFailures ==
    /\ op = "POST /generate-sql" =>
        IF arg.question = <<>>
        THEN /\ result = [status |-> 400, detail |-> "Question is required"]
             /\ AppGenerateSqlCalls(arg.question) = <<>>
             /\ db = arg.before
        ELSE /\ result.status = 200
             /\ DOMAIN result = {"status", "body"}
             /\ "success" \in DOMAIN result.body
             /\ AppGenerateSqlCalls(arg.question) = <<"sql_generator.generate_sql">>
             /\ ~result.body.success => StructuredFailure(result.body)
             /\ (arg.reply.ok /\ "sql" \in DOMAIN result.body
                    /\ ~ValidateSql(result.body.sql, DbGetTables(arg.before)).is_safe)
                  => ~result.body.success /\ ~result.body.validation.is_safe
    /\ op = "POST /explain-sql" =>
        IF arg.sql = <<>>
        THEN /\ result = [status |-> 400, detail |-> "SQL query is required"]
             /\ AppExplainSqlCalls(arg.sql) = <<>>
        ELSE /\ result.status = 200
             /\ DOMAIN result = {"status", "body"}
             /\ "success" \in DOMAIN result.body
             /\ AppExplainSqlCalls(arg.sql) = <<"groq_client.chat.completions.create">>
             /\ ~result.body.success => StructuredFailure(result.body)
             /\ ~arg.reply.ok =>
                    result.body = [success |-> FALSE, error |-> arg.reply.error]
             /\ (arg.reply.ok /\ "content" \in DOMAIN arg.reply
                    /\ JsonLoads(CleanExplanation(Strip(arg.reply.content))).raised)
                  => result.body = [success |-> FALSE,
                                    error |-> "Failed to parse explanation response"]

\* a fenced answer that is no JSON once the fences are removed was answered
\* with the parse-failure body
C25_Witness ==
    /\ op = "POST /explain-sql"
    /\ arg.sql # <<>>
    /\ arg.reply = [ok |-> TRUE, content |-> FenceJson \o Fence]
    /\ result = [status |-> 200,
                 body |-> [success |-> FALSE,
                           error |-> "Failed to parse explanation response"]]


\* C26 as stated: initialize() on an initialized engine returns true and
\* leaves the collection schema_embeddings with its documents unchanged, and
\* is_initialized never goes back to false under later initialize,
\* index_schema, retrieve_context and get_stats calls, failing ones included
C26_InitializeIdempotent ==
    /\ [](op = "initialize" /\ arg.was_initialized =>
            result = TRUE /\ initialized /\ collection = arg.before)
    /\ [][initialized => initialized']_vars

\* C26: initialize() on an initialized engine returns true unless opening
\* the vector store raises, and then it returns false; either way the engine
\* stays initialized on the collection schema_embeddings with its documents
\* unchanged, get_stats names that collection, and is_initialized never goes
\* back to false under later initialize, index_schema, retrieve_context,
\* get_relevant_schema and get_stats calls, failing ones included
C26_InitializeForwardOnly ==
    /\ [](op = "initialize" /\ arg.was_initialized =>
            /\ result = (arg.fault # "initialize")
            /\ initialized
            /\ collection = arg.before)
    /\ [](op = "get_stats" /\ arg.was_initialized /\ arg.fault = "none" =>
            result.collection_name = "schema_embeddings"
            /\ result.document_count = Len(collection))
    /\ [][initialized => initialized']_vars

\* initialize() failed on an engine that already held documents
C26_Witness ==
    /\ op = "initialize"
    /\ arg.was_initialized
    /\ arg.fault = "initialize"
    /\ result = FALSE
    /\ initialized
    /\ collection # <<>>
    /\ collection = arg.before


\* the documents index_schema derives from the current schema when every
\* table has sample rows
CurrentDocuments == IndexDocuments(CurrentSchema, AllSampled(db))

\* C27: after a successful index_schema call, forced or not and whatever
\* schema changes and calls came before, the collection holds exactly the
\* documents derived from the schema current at that call: every stored
\* document is one of them (nothing of a dropped table or column remains),
\* every table, column and marker document of the schema is stored, and the
\* only hash marker is that of the current schema; this includes the call
\* that skips because it finds a marker.
C27_IndexMatchesCurrentSchema ==
    (op = "index_schema" /\ result.success) =>
        /\ \A i \in 1..Len(collection) : HasId(CurrentDocuments, collection[i].id)
        /\ \A i \in 1..Len(CurrentDocuments) :
               CurrentDocuments[i].metadata.type # "sample"
                   => HasId(collection, CurrentDocuments[i].id)
        /\ \A i \in 1..Len(collection) :
               collection[i].metadata.type = "hash"
                   => collection[i].id = HashMarkerId(CurrentSchema)


\* C28: a failed index_schema leaves the vector collection unchanged: when
\* the call returns success = FALSE, in particular a forced reindex whose
\* batch add raises after the clear step, the collection holds the same
\* documents as before the call.
C28_FailedIndexKeepsCollection ==
    (op = "index_schema" /\ ~result.success) => collection = arg.before


\* C29: each process-wide collaborator is a single instance: under every
\* interleaving of concurrent calls of get_rag_engine, get_db_connector,
\* get_openai_client and get_sql_generator, first calls included, each getter
\* constructs at most one object and every caller, then and later, receives
\* that same object.
C29_SingleInstance ==
    \A getter \in Getters :
        /\ globals.constructed[getter] <= 1
        /\ Cardinality(globals.returned[getter]) <= 1


\* the latest set of key that no clear has followed happened less than
\* ttl_seconds before the time now
Fresh(key, now) == last_set[key].live /\ now - last_set[key].at < TtlSeconds

\* C30: after any sequence of set, get and clear calls and clock advances,
\* get(k) returns the value of the most recent set(k, v) exactly when that set
\* happened less than ttl_seconds ago and no clear followed it, and None
\* otherwise; the get that finds an expired entry removes it; and the value
\* map and the timestamp map always have the same keys.
C30_SchemaCacheTtl ==
    /\ DOMAIN cache = DOMAIN timestamps
    /\ op = "get" =>
        /\ Fresh(arg.key, arg.at) => result = last_set[arg.key].value
        /\ ~Fresh(arg.key, arg.at) => result = "None"
        /\ result # "None" => Fresh(arg.key, arg.at)
        /\ (arg.found /\ ~Fresh(arg.key, arg.at)) =>
               arg.key \notin DOMAIN cache /\ arg.key \notin DOMAIN timestamps
        /\ Fresh(arg.key, arg.at) =>
               arg.key \in DOMAIN cache /\ cache[arg.key] = result

\* a get found an entry set exactly ttl_seconds earlier, returned None and
\* removed it, while the other key stayed cached
C30_Witness ==
    /\ op = "get"
    /\ arg.found
    /\ last_set[arg.key].live
    /\ arg.at - last_set[arg.key].at = TtlSeconds
    /\ result = "None"
    /\ arg.key \notin DOMAIN cache
    /\ DOMAIN cache # {}

=============================================================================
